---- MODULE Spec2Model ----
(***************************************************************************)
(* Calendar Bulk Delete: the background service worker's bulk deletion     *)
(* engine (MessageRouter.performBulkDeletion, MessageRouter.deleteEvent,   *)
(* MessageRouter.isRetryableError) and its sliding-window RateLimiter.     *)
(*                                                                         *)
(* The worker is a single-threaded JavaScript event loop: a piece of       *)
(* synchronous code runs to completion, and control changes hands only at  *)
(* an await (a timer, a credential request, a network call).  Every action *)
(* below is one such run-to-completion piece.                              *)
(*                                                                         *)
(* The content script's bulk delete dialog, its event filter and its       *)
(* performBulkDeletion form a second part, specification SpecDialog.       *)
(*                                                                         *)
(* Time is the value of Date.now(), counted in ticks; synchronous code     *)
(* takes no time.  The program's numbers (batch size 10, 10 requests per   *)
(* 1000 ms) are scaled down to small parameters of the same shape.         *)
(***************************************************************************)
EXTENDS Integers, Sequences, FiniteSets

\* ---------------------------------------------------------------- bounds
\* Largest input list handed to performBulkDeletion.
MaxEvents == 3
\* const batchSize = 10, scaled.
batchSize == 2
\* new RateLimiter(10, 1000): maxRequests and windowMs, scaled.
maxRequests == 2
windowMs == 2
\* Date.now() stops advancing here.
MaxTime == 3
\* The remote endpoint answers 401 at most this many times during a run;
\* the recursion of deleteEvent itself has no bound.
MaxExpired == 2
\* Callers of the stand-alone limiter (specification SpecLimiter).
NumCallers == 3
\* The most events the calendar page shows.
MaxShown == 2
\* The days a date input can hold: 1..MaxDay.
MaxDay == 2
\* The access tokens chrome.identity issues at most.
MaxTokens == 3
\* The calls of showBulkDeleteDialog made on a page.
MaxFlows == 2
\* The messages the worker receives.
MaxMessages == 2
\* The most events a request to the worker lists.
MaxListed == 2
\* Instants per day: a day has its midnight and its midday.
DayTicks == 2

Events == 1..MaxEvents
\* The calls of deleteEvent a chunk makes side by side.
Attempts == 1..batchSize
\* The calls of showBulkDeleteDialog.
Flows == 1..MaxFlows
\* The messages of chrome.runtime.onMessage, in the order they arrive.
Messages == 1..MaxMessages
Callers == 1..NumCallers

\* ------------------------------------------------------------ characters
\* A JavaScript string is a sequence of one-character strings, so that
\* String.prototype.includes is a search and not an assumption.
Includes(s, sub) ==
  \E k \in 1..(Len(s) - Len(sub) + 1) : SubSeq(s, k, k + Len(sub) - 1) = sub

DigitChar == <<"0", "1", "2", "3", "4", "5", "6", "7", "8", "9">>

RECURSIVE NumberToString(_)
NumberToString(n) ==
  IF n < 10 THEN <<DigitChar[n + 1]>>
  ELSE NumberToString(n \div 10) \o <<DigitChar[(n % 10) + 1]>>

StrHTTP == <<"H", "T", "T", "P", " ">>
StrColon == <<":", " ">>
StrNetwork == <<"n", "e", "t", "w", "o", "r", "k">>
StrTimeout == <<"t", "i", "m", "e", "o", "u", "t">>

\* response.statusText: the reason phrase the endpoint sends with a status.
StatusText(status) ==
  CASE status = 403 -> <<"F", "o", "r", "b", "i", "d", "d", "e", "n">>
    [] status = 404 -> <<"N", "o", "t", " ", "F", "o", "u", "n", "d">>
    [] status = 429 -> <<"T", "o", "o", " ", "M", "a", "n", "y", " ",
                         "R", "e", "q", "u", "e", "s", "t", "s">>
    [] status = 500 -> <<"I", "n", "t", "e", "r", "n", "a", "l", " ",
                         "S", "e", "r", "v", "e", "r", " ",
                         "E", "r", "r", "o", "r">>
    [] status = 502 -> <<"B", "a", "d", " ", "G", "a", "t", "e", "w", "a", "y">>
    [] status = 503 -> <<"S", "e", "r", "v", "i", "c", "e", " ",
                         "U", "n", "a", "v", "a", "i", "l", "a", "b", "l", "e">>
    [] status = 504 -> <<"G", "a", "t", "e", "w", "a", "y", " ",
                         "T", "i", "m", "e", "o", "u", "t">>
    [] OTHER -> <<>>

\* The non-success statuses the endpoint answers with, 401 apart: one that
\* is final and two of the transient ones.
ErrorStatuses == {403, 429, 504}

\* What fetch rejects with when no response arrives: Chrome's TypeError
\* message, and the message the repository's own test mocks.
FetchErrorMessages ==
  { <<"F", "a", "i", "l", "e", "d", " ", "t", "o", " ", "f", "e", "t", "c", "h">>,
    <<"N", "e", "t", "w", "o", "r", "k", " ", "e", "r", "r", "o", "r">> }

\* chrome.runtime.lastError.message of a refused credential request.
AuthErrorMessages ==
  { <<"T", "h", "e", " ", "u", "s", "e", "r", " ", "d", "i", "d", " ",
      "n", "o", "t", " ", "a", "p", "p", "r", "o", "v", "e", " ",
      "a", "c", "c", "e", "s", "s", ".">> }

\* The TypeError of reading a property of null: the message names the
\* property.
StrCannotRead ==
  <<"C", "a", "n", "n", "o", "t", " ", "r", "e", "a", "d", " ",
    "p", "r", "o", "p", "e", "r", "t", "i", "e", "s", " ", "o",
    "f", " ", "n", "u", "l", "l", " ", "(", "r", "e", "a", "d",
    "i", "n", "g", " ", "'">>

StrCalendarId == <<"c", "a", "l", "e", "n", "d", "a", "r", "I", "d">>

StrDomEventId == <<"d", "o", "m", "E", "v", "e", "n", "t", "I", "d">>

NullPropertyMessage(property) == StrCannotRead \o property \o <<"'", ")">>

\* A property an object does not have.
Undefined == -1

\* new Error(message): an Error carries a message and no status property.
NewError(message) == [message |-> message, status |-> Undefined]

NoError == [message |-> <<>>, status |-> Undefined]

\* ----------------------------------------------------------------- state
VARIABLES
  now,         \* Date.now()
  events,      \* performBulkDeletion's argument: the list of events
  enginePc,    \* "idle", "running" (awaiting a chunk's settlement), "done",
               \* "threw" (an error left performBulkDeletion)
  i,           \* the loop variable of performBulkDeletion
  results,     \* { successful: [], failed: [] }
  requests,    \* RateLimiter.requests of the run's limiter
  pc,          \* per event, where its attempt (the async arrow function) is
  wake,        \* per event, when the setTimeout of its acquire is due
  reason,      \* per event, the Error its attempt rejected with
  sends,       \* per event, the DELETE requests sent so far
  cause,       \* per event, what the endpoint did to it (history)
  expired,     \* the 401 answers of the run so far (history)
  malformed,   \* the positions of the input list that hold null, not an event
  chunks,      \* the batches sliced so far, in order (history)
  caught,      \* the values of i at which the catch block ran (history)
  answered,    \* per event, the number of its request answered last (history)
  overtook,    \* the events whose attempt settled while an earlier event of
               \* their chunk was still in flight (history, kept in
               \* specification SpecOrder only)
  logging,     \* whether overtook is kept
  sent,        \* the times of the DELETE requests of the last windowMs ticks
               \* (history, kept in specification SpecSends only)
  cpc,         \* per stand-alone caller, where its acquire() is
  cwake,       \* per stand-alone caller, when its setTimeout is due
  blockedOn,   \* per stand-alone caller, the oldest counted timestamp when
               \* its acquire() first found the window full (history)
  grantedAt,   \* per stand-alone caller, when its acquire() returned (history)
  grantLog,    \* per tick, how many acquire() calls returned at it (history)
  closed,      \* the stand-alone callers have stopped making new calls
  eventCache,  \* content script: CalendarExtension.eventCache, in insertion order
  dpc,         \* content script: which dialog the page shows
  allEvents,   \* bulk delete dialog: the events it was opened with
  filteredEvents, \* bulk delete dialog: let filteredEvents
  titleValue,  \* bulk delete dialog: titleFilter.value
  fromValue,   \* bulk delete dialog: dateFrom.value
  toValue,     \* bulk delete dialog: dateTo.value
  settledDialog, \* the promise of showBulkDeleteDialog has been resolved
  isProcessing, \* content script: CalendarExtension.isProcessing
  pending,     \* content script: eventsToDelete and nonDeletableEvents of the
               \* performBulkDeletion in progress
  message,     \* the events of the BULK_DELETE_EVENTS message sent, if any
  response,    \* the worker's answer to it, if any
  touched,     \* a filter input has been changed (history)
  clicked,     \* the buttons pressed so far (history)
  tokenCache,  \* chrome.identity: the cached access token, 0 if none
  minted,      \* chrome.identity: the access tokens issued so far
  removals,    \* removeCachedAuthToken calls made and not yet carried out
  apc,         \* per call of deleteEvent, where it is
  bearer,      \* per call of deleteEvent, the token of its last DELETE
  refused,     \* per call of deleteEvent, the token answered 401 last
  other,       \* the locals of a second performBulkDeletion in progress,
               \* while the worker's loop is at the first one's
  fpc,         \* per call of showBulkDeleteDialog, where it is
  shown,       \* per call, the events its dialog was opened with
  asked,       \* per call, the eventDomIds handed to performBulkDeletion
  deletion,    \* per call, eventsToDelete and nonDeletableEvents
  ending,      \* per call, the way it came to its end (history)
  inbox,       \* per message, the request handleMessage was called with
  hpc,         \* per message, where its handleMessage is
  awaited,     \* per message, the promise its handleMessage awaits
  replies      \* per message, the calls of its sendResponse, in order

engineVars == <<events, malformed, enginePc, i, results, pc, wake, reason, sends,
                cause, expired, chunks, caught, answered, overtook, logging>>
callerVars == <<cpc, cwake, blockedOn, grantedAt, grantLog, closed>>
dialogVars == <<eventCache, dpc, allEvents, filteredEvents, titleValue, fromValue,
                toValue, settledDialog, isProcessing, pending, message, response,
                touched, clicked>>
tokenVars == <<tokenCache, minted, removals, apc, bearer, refused>>
pageVars == <<fpc, shown, asked, deletion, ending>>
routerVars == <<inbox, hpc, awaited, replies>>
extraVars == <<tokenVars, other, pageVars, routerVars>>
vars == <<now, requests, sent, engineVars, callerVars, dialogVars, extraVars>>

None == 0 - 1

\* ----------------------------------------------------------- RateLimiter
MinOf(seq) == CHOOSE m \in { seq[k] : k \in 1..Len(seq) } :
                \A k \in 1..Len(seq) : m <= seq[k]

\* A window one tick too short: now - time < this.windowMs - 1.
PruneEarly(reqs, t) == SelectSeq(reqs, LAMBDA time : t - time < windowMs - 1)

\* No pruning at all.
PruneNothing(reqs, t) == reqs

\* this.requests.filter(time => now - time < this.windowMs)
Prune(reqs, t) == SelectSeq(reqs, LAMBDA time : t - time < windowMs)

\* A lost update: the list is overwritten instead of appended to.
RecordOverwriting(reqs, t) == <<t>>

\* this.requests.push(now)
Record(reqs, t) == Append(reqs, t)

\* this.windowMs - (now - Math.min(...this.requests))
WaitTime(reqs, t) == windowMs - (t - MinOf(reqs))

\* A capacity test that is off by one: length > maxRequests.
AcquireOneTooMany(reqs, t) ==
  LET pruned == Prune(reqs, t) IN
  IF Len(pruned) > maxRequests
    THEN [granted |-> FALSE, requests |-> pruned, due |-> t + WaitTime(pruned, t)]
    ELSE [granted |-> TRUE, requests |-> Record(pruned, t), due |-> None]

\* One synchronous pass of RateLimiter.acquire(), from Date.now() to the
\* push or to the setTimeout: nothing else runs in between.
acquire(reqs, t) ==
  LET pruned == Prune(reqs, t) IN
  IF Len(pruned) >= maxRequests
    THEN [granted |-> FALSE, requests |-> pruned, due |-> t + WaitTime(pruned, t)]
    ELSE [granted |-> TRUE, requests |-> Record(pruned, t), due |-> None]

\* ------------------------------------------------- performBulkDeletion
MinNat(a, b) == IF a < b THEN a ELSE b

\* A slice that stops one short: events.slice(i, i + batchSize - 1).
BatchShort(evs, start) ==
  SubSeq(evs, start + 1, MinNat(start + batchSize - 1, Len(evs)))

\* A slice with no end: events.slice(i).
BatchAll(evs, start) == SubSeq(evs, start + 1, Len(evs))

\* events.slice(i, i + batchSize), i counted from 0
Batch(evs, start) == SubSeq(evs, start + 1, MinNat(start + batchSize, Len(evs)))

\* batch.map(async (event) => { await rateLimiter.acquire(); ... }): each
\* arrow function runs synchronously up to the first await inside acquire(),
\* so the first passes of a chunk run back to back, in input order.
RECURSIVE Dispatch(_, _, _)
Dispatch(batch, reqs, t) ==
  IF batch = <<>> THEN [requests |-> reqs, passes |-> <<>>]
  ELSE LET p == acquire(reqs, t)
           rest == Dispatch(Tail(batch), p.requests, t)
       IN [requests |-> rest.requests, passes |-> <<p>> \o rest.passes]

\* isRetryableError(error)
retryableCodes == {429, 500, 502, 503, 504}

\* Every failure called retryable, as a stub would.
IsRetryableAlways(error) == TRUE

isRetryableError(error) ==
  \/ error.status \in retryableCodes
  \/ Includes(error.message, StrNetwork)
  \/ Includes(error.message, StrTimeout)

SuccessEntry(e) == [actualEventId |-> e]

FailureEntry(e, error) ==
  [actualEventId |-> e, error |-> error.message,
   retryable |-> isRetryableError(error)]

\* A fail-fast join (Promise.all): one rejection fails the whole chunk.
ClassifyFailFast(batch, res, status, errors) ==
  IF \E k \in 1..Len(batch) : status[batch[k]] = "rejected"
    THEN [res EXCEPT !.failed =
            @ \o [k \in 1..Len(batch) |-> FailureEntry(batch[k], errors[batch[k]])]]
    ELSE [res EXCEPT !.successful =
            @ \o [k \in 1..Len(batch) |-> SuccessEntry(batch[k])]]

\* A forEach that files the attempts from the last index to the first.
RECURSIVE ClassifyBackwards(_, _, _, _)
ClassifyBackwards(batch, res, status, errors) ==
  IF batch = <<>> THEN res
  ELSE LET e == batch[Len(batch)]
           next == IF status[e] = "fulfilled"
                     THEN [res EXCEPT !.successful = Append(@, SuccessEntry(e))]
                     ELSE [res EXCEPT !.failed = Append(@, FailureEntry(e, errors[e]))]
       IN ClassifyBackwards(SubSeq(batch, 1, Len(batch) - 1), next, status, errors)

\* batchResults.forEach((result, index) => ...): in index order, a
\* fulfilled attempt is pushed to successful, a rejected one to failed.
RECURSIVE Classify(_, _, _, _)
Classify(batch, res, status, errors) ==
  IF batch = <<>> THEN res
  ELSE LET e == Head(batch)
           next == IF status[e] = "fulfilled"
                     THEN [res EXCEPT !.successful = Append(@, SuccessEntry(e))]
                     ELSE [res EXCEPT !.failed = Append(@, FailureEntry(e, errors[e]))]
       IN Classify(Tail(batch), next, status, errors)

\* No await: the chunk is taken as settled at once.
SettledAlways(e) == TRUE

Settled(e) == pc[e] \in {"fulfilled", "rejected"}

\* The elements of batch before its first null (all of them if none is).
RECURSIVE BeforeNull(_, _)
BeforeNull(batch, nulls) ==
  IF batch = <<>> \/ Head(batch) \in nulls THEN <<>>
  ELSE <<Head(batch)>> \o BeforeNull(Tail(batch), nulls)

\* A forEach that throws as soon as the chunk holds a rejected attempt.
ForEachThrowsOnRejection(batch, nulls) ==
  \E k \in 1..Len(batch) : pc[batch[k]] = "rejected"

\* The try block's forEach throws at event.domEventId when it comes to a
\* null element, whose attempt has rejected: the elements before it have been
\* pushed by then.
ForEachThrows(batch, nulls) == \E k \in 1..Len(batch) : batch[k] \in nulls

\* results.failed.push({ ..., error: batchError.message, retryable: true })
CaughtEntry(e, batchError) ==
  [actualEventId |-> e, error |-> batchError.message, retryable |-> TRUE]

\* catch (batchError) { batch.forEach(event => results.failed.push(...)) }:
\* it pushes an entry per element and throws in its turn at a null element.
CatchBlock(batch, res, nulls, batchError) ==
  LET done == BeforeNull(batch, nulls) IN
    [res EXCEPT !.failed =
       @ \o [k \in 1..Len(done) |-> CaughtEntry(done[k], batchError)]]

CatchThrows(batch, nulls) == \E k \in 1..Len(batch) : batch[k] \in nulls

InBatch(batch, e) == \E k \in 1..Len(batch) : batch[k] = e

PosIn(batch, e) == CHOOSE k \in 1..Len(batch) : batch[k] = e

\* The attempts of a dispatched chunk: granted ones go on to deleteEvent,
\* the others sleep in acquire's setTimeout.
AfterDispatch(batch, d, old) ==
  [e \in Events |->
     IF InBatch(batch, e)
       THEN (IF d.passes[PosIn(batch, e)].granted THEN "token" ELSE "waiting")
       ELSE old[e]]

WakeAfterDispatch(batch, d, old) ==
  [e \in Events |->
     IF InBatch(batch, e) THEN d.passes[PosIn(batch, e)].due ELSE old[e]]

\* The events that have overtaken an earlier event of their chunk, once the
\* attempt of e has settled.
AfterSettling(e) ==
  IF /\ logging
     /\ \E e1 \in 1..Len(events) :
       /\ e1 < e
       /\ (e1 - 1) \div batchSize = (e - 1) \div batchSize
       /\ ~Settled(e1)
    THEN overtook \cup {e}
    ELSE overtook

\* ------------------------------------------------------------------ Init
NoCause == [kind |-> "none", status |-> 0]

InitCallers ==
  /\ cpc = [c \in Callers |-> "idle"]
  /\ cwake = [c \in Callers |-> None]
  /\ blockedOn = [c \in Callers |-> None]
  /\ grantedAt = [c \in Callers |-> None]
  /\ grantLog = [t \in 0..MaxTime |-> 0]
  /\ closed = FALSE

InitEngine ==
  /\ enginePc = "idle"
  /\ i = 0
  /\ results = [successful |-> <<>>, failed |-> <<>>]
  /\ pc = [e \in Events |-> "pending"]
  /\ wake = [e \in Events |-> None]
  /\ reason = [e \in Events |-> NoError]
  /\ sends = [e \in Events |-> 0]
  /\ cause = [e \in Events |-> NoCause]
  /\ expired = 0
  /\ chunks = <<>>
  /\ caught = {}
  /\ answered = [e \in Events |-> 0]
  /\ overtook = {}

\* The worker has just started; a BULK_DELETE_EVENTS message carries a list
\* of 0..MaxEvents elements, here numbered in input order.  The content
\* script sends event objects; another sender may put null in the list, and
\* at most one position does so here.
\* The content script before the bulk delete button is pressed, with the
\* events the page has been scanned for.
InitContent(cache) ==
  /\ eventCache = cache
  /\ dpc = "page"
  /\ allEvents = <<>>
  /\ filteredEvents = <<>>
  /\ titleValue = <<>>
  /\ fromValue = 0
  /\ toValue = 0
  /\ settledDialog = FALSE
  /\ isProcessing = FALSE
  /\ pending = [eventsToDelete |-> <<>>, nonDeletableEvents |-> <<>>]
  /\ message = <<>>
  /\ response = [kind |-> "none", successful |-> <<>>, failed |-> <<>>]
  /\ touched = FALSE
  /\ clicked = [delete |-> FALSE, confirm |-> FALSE, last |-> "none"]

\* chrome.identity with nothing cached, and no call of deleteEvent made.
InitTokens ==
  /\ tokenCache = 0
  /\ minted = 0
  /\ removals = {}
  /\ apc = [a \in Attempts |-> "idle"]
  /\ bearer = [a \in Attempts |-> 0]
  /\ refused = [a \in Attempts |-> 0]

\* What an invocation of performBulkDeletion holds: its argument, its
\* locals (results, the RateLimiter, the loop variable), and its attempts.
RunLocals(evs) ==
  [events |-> evs, enginePc |-> "idle", i |-> 0,
   results |-> [successful |-> <<>>, failed |-> <<>>], requests |-> <<>>,
   pc |-> [e \in Events |-> "pending"], wake |-> [e \in Events |-> None],
   reason |-> [e \in Events |-> NoError], sends |-> [e \in Events |-> 0],
   cause |-> [e \in Events |-> NoCause], chunks |-> <<>>, caught |-> {},
   answered |-> [e \in Events |-> 0]]

\* No call of showBulkDeleteDialog has been made.
InitFlows ==
  /\ fpc = [f \in Flows |-> "idle"]
  /\ shown = [f \in Flows |-> <<>>]
  /\ asked = [f \in Flows |-> <<>>]
  /\ deletion = [f \in Flows |-> [eventsToDelete |-> <<>>, nonDeletableEvents |-> <<>>]]
  /\ ending = [f \in Flows |-> "none"]

\* A request that is not an object: null.
NullRequest == [isObject |-> FALSE, action |-> "", listed |-> FALSE, events |-> <<>>]

NoPromise == [kind |-> "none"]

\* No message has arrived at the worker.
InitRouter ==
  /\ inbox = [m \in Messages |-> NullRequest]
  /\ hpc = [m \in Messages |-> "unreceived"]
  /\ awaited = [m \in Messages |-> NoPromise]
  /\ replies = [m \in Messages |-> <<>>]

InitExtra ==
  /\ InitTokens
  /\ other = RunLocals(<<>>)
  /\ InitFlows
  /\ InitRouter

InitWorker ==
  /\ now = 0
  /\ requests = <<>>
  /\ sent = <<>>
  /\ events \in { [k \in 1..n |-> k] : n \in 0..MaxEvents }
  /\ malformed \in {{}} \cup { {k} : k \in 1..Len(events) }
  /\ InitEngine
  /\ InitCallers
  /\ InitContent(<<>>)
  /\ InitExtra

Init == InitWorker /\ logging = FALSE

\* --------------------------------------------------------------- actions
\* Date.now() advances.  Only acquire() reads the clock, so it is advanced
\* only while a run or a caller of the limiter is in progress.  The sends
\* that leave the window are forgotten.
Tick ==
  /\ now < MaxTime
  /\ \/ enginePc = "running"
     \/ \E c \in Callers : cpc[c] # "idle"
  /\ now' = now + 1
  /\ sent' = SelectSeq(sent, LAMBDA time : (now + 1) - time < windowMs)
  /\ UNCHANGED <<requests, engineVars, callerVars, dialogVars, extraVars>>

\* The for loop of performBulkDeletion from its test i < events.length on:
\* either the next chunk is dispatched and the engine awaits its settlement,
\* or the loop ends and results is returned.
RunLoop(start, reqs) ==
  /\ i' = start
  /\ IF start < Len(events)
       THEN LET batch == Batch(events, start)
                d == Dispatch(batch, reqs, now)
            IN /\ enginePc' = "running"
               /\ requests' = d.requests
               /\ pc' = AfterDispatch(batch, d, pc)
               /\ wake' = WakeAfterDispatch(batch, d, wake)
               /\ chunks' = Append(chunks, batch)
       ELSE /\ enginePc' = "done"
            /\ requests' = reqs
            /\ UNCHANGED <<pc, wake, chunks>>

\* handleMessage, case 'BULK_DELETE_EVENTS': performBulkDeletion(request.events)
\* up to its first await.
performBulkDeletion ==
  /\ enginePc = "idle"
  /\ results' = [successful |-> <<>>, failed |-> <<>>]
  /\ RunLoop(0, <<>>)
  /\ UNCHANGED <<now, events, malformed, reason, sends, cause, expired,
               caught, answered, sent, overtook, logging, callerVars, dialogVars, extraVars>>

\* The setTimeout of a sleeping acquire() fires: return this.acquire().
TimerFire(e) ==
  /\ pc[e] = "waiting"
  /\ now >= wake[e]
  /\ LET p == acquire(requests, now) IN
       /\ requests' = p.requests
       /\ pc' = [pc EXCEPT ![e] = IF p.granted THEN "token" ELSE "waiting"]
       /\ wake' = [wake EXCEPT ![e] = p.due]
  /\ UNCHANGED <<now, events, malformed, enginePc, i, results, reason, sends, cause, expired,
               chunks, caught, answered, sent, overtook, logging, callerVars, dialogVars, extraVars>>

\* A fetch that does not wait for acquire() to return.
SendDeleteEarly(e) ==
  /\ pc[e] \in {"waiting", "token"}
  /\ e \notin malformed
  /\ pc' = [pc EXCEPT ![e] = "fetching"]
  /\ sends' = [sends EXCEPT ![e] = @ + 1]
  /\ UNCHANGED <<now, requests, events, malformed, enginePc, i, results, wake, reason, cause, expired,
               chunks, caught, answered, overtook, logging, callerVars, dialogVars, extraVars>>

\* deleteEvent: authManager.getValidToken() resolves and the DELETE is sent.
SendDelete(e) ==
  /\ pc[e] = "token"
  /\ e \notin malformed
  /\ pc' = [pc EXCEPT ![e] = "fetching"]
  /\ sends' = [sends EXCEPT ![e] = @ + 1]
  /\ UNCHANGED <<now, requests, events, malformed, enginePc, i, results, wake, reason, cause, expired,
               chunks, caught, answered, overtook, logging, callerVars, dialogVars, extraVars>>

TokenResolve(e) == SendDelete(e) /\ UNCHANGED sent

\* The same step, with the time of the request written down.
TokenResolveLogged(e) == SendDelete(e) /\ sent' = Append(sent, now)

\* A credential failure that is not captured per attempt: it ends the run.
TokenRejectFatal(e) ==
  /\ pc[e] = "token"
  /\ e \notin malformed
  /\ \E m \in AuthErrorMessages :
       reason' = [reason EXCEPT ![e] = NewError(m)]
  /\ pc' = [pc EXCEPT ![e] = "rejected"]
  /\ cause' = [cause EXCEPT ![e] = [kind |-> "auth", status |-> 0]]
  /\ enginePc' = "threw"
  /\ overtook' = AfterSettling(e)
  /\ UNCHANGED logging
  /\ UNCHANGED <<now, requests, events, malformed, i, results, wake, sends, expired,
               chunks, caught, answered, sent, callerVars, dialogVars, extraVars>>

\* deleteEvent: authManager.getValidToken() rejects with lastError's message.
TokenReject(e) ==
  /\ pc[e] = "token"
  /\ e \notin malformed
  /\ \E m \in AuthErrorMessages :
       reason' = [reason EXCEPT ![e] = NewError(m)]
  /\ pc' = [pc EXCEPT ![e] = "rejected"]
  /\ cause' = [cause EXCEPT ![e] = [kind |-> "auth", status |-> 0]]
  /\ overtook' = AfterSettling(e)
  /\ UNCHANGED logging
  /\ UNCHANGED <<now, requests, events, malformed, enginePc, i, results, wake, sends, expired,
               chunks, caught, answered, sent, callerVars, dialogVars, extraVars>>

\* The arrow function reads event.calendarId of a null element once its
\* acquire() has returned: a TypeError, and the attempt rejects.
NullEventThrows(e) ==
  /\ pc[e] = "token"
  /\ e \in malformed
  /\ reason' = [reason EXCEPT ![e] = NewError(NullPropertyMessage(StrCalendarId))]
  /\ pc' = [pc EXCEPT ![e] = "rejected"]
  /\ cause' = [cause EXCEPT ![e] = [kind |-> "null", status |-> 0]]
  /\ overtook' = AfterSettling(e)
  /\ UNCHANGED logging
  /\ UNCHANGED <<now, requests, events, malformed, enginePc, i, results, wake, sends, expired,
               chunks, caught, answered, sent, callerVars, dialogVars, extraVars>>

\* deleteEvent: response.ok, the event id is returned and the attempt fulfils.
ResponseOk(e) ==
  /\ pc[e] = "fetching"
  /\ pc' = [pc EXCEPT ![e] = "fulfilled"]
  /\ cause' = [cause EXCEPT ![e] = [kind |-> "ok", status |-> 200]]
  /\ answered' = [answered EXCEPT ![e] = sends[e]]
  /\ overtook' = AfterSettling(e)
  /\ UNCHANGED logging
  /\ UNCHANGED <<now, requests, events, malformed, enginePc, i, results, wake, reason, sends, expired,
               chunks, caught, sent, callerVars, dialogVars, extraVars>>

\* `HTTP ${response.status}: ${response.statusText}`
HttpErrorMessage(status) ==
  StrHTTP \o NumberToString(status) \o StrColon \o StatusText(status)

\* The 401 branch without its return: the retry goes its own way, is
\* acknowledged, and the attempt itself throws the HTTP 401 error.
Response401Detached(e) ==
  /\ pc[e] = "fetching"
  /\ expired < MaxExpired
  /\ expired' = expired + 1
  /\ pc' = [pc EXCEPT ![e] = "rejected"]
  /\ reason' = [reason EXCEPT ![e] = NewError(HttpErrorMessage(401))]
  /\ sends' = [sends EXCEPT ![e] = @ + 1]
  /\ answered' = [answered EXCEPT ![e] = sends[e] + 1]
  /\ cause' = [cause EXCEPT ![e] = [kind |-> "ok", status |-> 200]]
  /\ overtook' = AfterSettling(e)
  /\ UNCHANGED logging
  /\ UNCHANGED <<now, requests, events, malformed, enginePc, i, results, wake,
               chunks, caught, sent, callerVars, dialogVars, extraVars>>

\* deleteEvent: response.status === 401: removeCachedAuthToken, then
\* return this.deleteEvent(calendarId, eventId), which asks for a token again.
Response401(e) ==
  /\ pc[e] = "fetching"
  /\ expired < MaxExpired
  /\ expired' = expired + 1
  /\ pc' = [pc EXCEPT ![e] = "token"]
  /\ answered' = [answered EXCEPT ![e] = sends[e]]
  /\ UNCHANGED <<now, requests, events, malformed, enginePc, i, results, wake, reason, sends, cause,
               chunks, caught, sent, overtook, logging, callerVars, dialogVars, extraVars>>

\* An engine that sends a transient failure's request once more.
ResponseErrorRetrying(e) ==
  /\ pc[e] = "fetching"
  /\ \E status \in ErrorStatuses :
       /\ reason' = [reason EXCEPT ![e] = NewError(HttpErrorMessage(status))]
       /\ cause' = [cause EXCEPT ![e] = [kind |-> "http", status |-> status]]
       /\ pc' = [pc EXCEPT ![e] =
                   IF status \in retryableCodes /\ sends[e] < 2
                     THEN "token" ELSE "rejected"]
  /\ answered' = [answered EXCEPT ![e] = sends[e]]
  /\ overtook' = IF pc'[e] = "rejected" THEN AfterSettling(e) ELSE overtook
  /\ UNCHANGED logging
  /\ UNCHANGED <<now, requests, events, malformed, enginePc, i, results, wake, sends, expired,
               chunks, caught, sent, callerVars, dialogVars, extraVars>>

\* deleteEvent: any other non-ok response throws new Error(`HTTP ...`).
ResponseError(e) ==
  /\ pc[e] = "fetching"
  /\ \E status \in ErrorStatuses :
       /\ reason' = [reason EXCEPT ![e] = NewError(HttpErrorMessage(status))]
       /\ cause' = [cause EXCEPT ![e] = [kind |-> "http", status |-> status]]
  /\ pc' = [pc EXCEPT ![e] = "rejected"]
  /\ answered' = [answered EXCEPT ![e] = sends[e]]
  /\ overtook' = AfterSettling(e)
  /\ UNCHANGED logging
  /\ UNCHANGED <<now, requests, events, malformed, enginePc, i, results, wake, sends, expired,
               chunks, caught, sent, callerVars, dialogVars, extraVars>>

\* deleteEvent: fetch rejects, no response was received.
FetchReject(e) ==
  /\ pc[e] = "fetching"
  /\ \E m \in FetchErrorMessages :
       reason' = [reason EXCEPT ![e] = NewError(m)]
  /\ pc' = [pc EXCEPT ![e] = "rejected"]
  /\ cause' = [cause EXCEPT ![e] = [kind |-> "network", status |-> 0]]
  /\ overtook' = AfterSettling(e)
  /\ UNCHANGED logging
  /\ UNCHANGED <<now, requests, events, malformed, enginePc, i, results, wake, sends, expired,
               chunks, caught, answered, sent, callerVars, dialogVars, extraVars>>

\* Promise.allSettled resolves: every attempt of the chunk has settled.  The
\* forEach classifies them and the loop goes on, all in one piece.  If the
\* forEach throws, the catch block runs on what the forEach has pushed so
\* far; if the catch block throws, the error leaves performBulkDeletion.
SettleChunk ==
  /\ enginePc = "running"
  /\ LET batch == Batch(events, i)
         tried == Classify(BeforeNull(batch, malformed), results, pc, reason)
         batchError == NewError(NullPropertyMessage(StrDomEventId))
     IN
       /\ \A k \in 1..Len(batch) : Settled(batch[k])
       /\ IF ForEachThrows(batch, malformed)
            THEN /\ results' = CatchBlock(batch, tried, malformed, batchError)
                 /\ caught' = caught \cup {i}
                 /\ IF CatchThrows(batch, malformed)
                      THEN /\ enginePc' = "threw"
                           /\ UNCHANGED <<i, requests, pc, wake, chunks>>
                      ELSE RunLoop(i + batchSize, requests)
            ELSE /\ results' = tried
                 /\ caught' = caught
                 /\ RunLoop(i + batchSize, requests)
  /\ UNCHANGED <<now, events, malformed, reason, sends, cause, expired,
               answered, sent, overtook, logging, callerVars, dialogVars, extraVars>>

Next ==
  \/ Tick
  \/ performBulkDeletion
  \/ \E e \in Events : TimerFire(e)
  \/ \E e \in Events : TokenResolve(e)
  \/ \E e \in Events : TokenReject(e)
  \/ \E e \in Events : NullEventThrows(e)
  \/ \E e \in Events : ResponseOk(e)
  \/ \E e \in Events : Response401(e)
  \/ \E e \in Events : ResponseError(e)
  \/ \E e \in Events : FetchReject(e)
  \/ SettleChunk

Spec == Init /\ [][Next]_vars

\* The same worker with the times of its DELETE requests kept, for
\* event objects only.
InitSends == Init /\ malformed = {}

NextSends ==
  \/ Tick
  \/ performBulkDeletion
  \/ \E e \in Events : TimerFire(e)
  \/ \E e \in Events : TokenResolveLogged(e)
  \/ \E e \in Events : TokenReject(e)
  \/ \E e \in Events : ResponseOk(e)
  \/ \E e \in Events : Response401(e)
  \/ \E e \in Events : ResponseError(e)
  \/ \E e \in Events : FetchReject(e)
  \/ SettleChunk

SpecSends == InitSends /\ [][NextSends]_vars

\* The same worker with the order in which the attempts of a chunk settle
\* kept, for event objects only.
InitOrder == InitWorker /\ malformed = {} /\ logging = TRUE

NextOrder ==
  \/ Tick
  \/ performBulkDeletion
  \/ \E e \in Events : TimerFire(e)
  \/ \E e \in Events : TokenResolve(e)
  \/ \E e \in Events : TokenReject(e)
  \/ \E e \in Events : ResponseOk(e)
  \/ \E e \in Events : Response401(e)
  \/ \E e \in Events : ResponseError(e)
  \/ \E e \in Events : FetchReject(e)
  \/ SettleChunk

SpecOrder == InitOrder /\ [][NextOrder]_vars

\* ------------------------------------------- the limiter on its own
\* new RateLimiter(maxRequests, windowMs) with callers that call acquire()
\* whenever they like, as the class allows.
InitLimiter ==
  /\ now = 0
  /\ requests = <<>>
  /\ sent = <<>>
  /\ events = <<>>
  /\ malformed = {}
  /\ logging = FALSE
  /\ InitEngine
  /\ InitCallers
  /\ InitContent(<<>>)
  /\ InitExtra

\* The timestamps counted in the window that ends at t.
Counted(reqs, t) == SelectSeq(reqs, LAMBDA time : t - time < windowMs)

\* One pass of acquire() made by caller c, with its bookkeeping.
CallerPass(c, first) ==
  LET p == acquire(requests, now) IN
    /\ requests' = p.requests
    /\ cpc' = [cpc EXCEPT ![c] = IF p.granted THEN "returned" ELSE "sleeping"]
    /\ cwake' = [cwake EXCEPT ![c] = p.due]
    /\ grantedAt' = [grantedAt EXCEPT ![c] = IF p.granted THEN now ELSE None]
    /\ grantLog' = IF p.granted THEN [grantLog EXCEPT ![now] = @ + 1] ELSE grantLog
    /\ blockedOn' = IF first
                      THEN [blockedOn EXCEPT ![c] =
                              IF Len(Counted(requests, now)) >= maxRequests
                                THEN MinOf(Counted(requests, now))
                                ELSE None]
                      ELSE blockedOn

\* A caller calls rateLimiter.acquire().
CallAcquire(c) ==
  /\ cpc[c] = "idle"
  /\ ~closed
  /\ CallerPass(c, TRUE)
  /\ UNCHANGED <<now, sent, engineVars, dialogVars, extraVars, closed>>

\* The setTimeout of a sleeping caller fires: return this.acquire().
CallerTimerFire(c) ==
  /\ cpc[c] = "sleeping"
  /\ now >= cwake[c]
  /\ CallerPass(c, FALSE)
  /\ UNCHANGED <<now, sent, engineVars, dialogVars, extraVars, closed>>

\* The caller's await returns; the caller may call again later.
CallerResume(c) ==
  /\ cpc[c] = "returned"
  /\ cpc' = [cpc EXCEPT ![c] = "idle"]
  /\ grantedAt' = [grantedAt EXCEPT ![c] = None]
  /\ blockedOn' = [blockedOn EXCEPT ![c] = None]
  /\ UNCHANGED <<now, requests, sent, engineVars, dialogVars, extraVars, cwake, grantLog, closed>>

NextLimiter ==
  \/ Tick
  \/ \E c \in Callers : CallAcquire(c)
  \/ \E c \in Callers : CallerTimerFire(c)
  \/ \E c \in Callers : CallerResume(c)

SpecLimiter == InitLimiter /\ [][NextLimiter]_vars

\* ------------------------------------ the limiter with time that goes on
\* Time never stops.  Past MaxTime every stored time is moved back by one
\* tick with the clock, which keeps all the differences acquire() computes;
\* a time that would fall below 0 is MaxTime >= windowMs old and is pruned
\* whatever its value, so it stays at 0.
Back(t) == IF t = None THEN None ELSE IF t > 0 THEN t - 1 ELSE 0

TickLive ==
  /\ IF now < MaxTime
       THEN /\ now' = now + 1
            /\ UNCHANGED <<requests, cwake, blockedOn, grantedAt, grantLog>>
       ELSE /\ now' = now
            /\ requests' = [k \in 1..Len(requests) |-> Back(requests[k])]
            /\ cwake' = [c \in Callers |-> Back(cwake[c])]
            /\ blockedOn' = [c \in Callers |-> Back(blockedOn[c])]
            /\ grantedAt' = [c \in Callers |-> Back(grantedAt[c])]
            /\ grantLog' = [t \in 0..MaxTime |->
                              IF t < MaxTime THEN grantLog[t + 1] ELSE 0]
  /\ UNCHANGED <<sent, engineVars, dialogVars, extraVars, cpc, closed>>

\* From here on no caller makes a new call.
StopCalling ==
  /\ ~closed
  /\ closed' = TRUE
  /\ UNCHANGED <<now, requests, sent, engineVars, dialogVars, extraVars, cpc, cwake, blockedOn, grantedAt, grantLog>>

NextLimiterLive ==
  \/ TickLive
  \/ StopCalling
  \/ \E c \in Callers : CallAcquire(c)
  \/ \E c \in Callers : CallerTimerFire(c)
  \/ \E c \in Callers : CallerResume(c)

\* Time advances and every timer that is due fires.
FairLimiter ==
  /\ WF_vars(TickLive)
  /\ \A c \in Callers : WF_vars(CallerTimerFire(c))

SpecLimiterLive == InitLimiter /\ [][NextLimiterLive]_vars /\ FairLimiter

\* ---------------------------------------------------------- the report
SeqRange(seq) == { seq[k] : k \in 1..Len(seq) }

SuccessfulIds == { results.successful[k].actualEventId : k \in 1..Len(results.successful) }

FailedIds == { results.failed[k].actualEventId : k \in 1..Len(results.failed) }

TimesSuccessful(e) ==
  Cardinality({ k \in 1..Len(results.successful) : results.successful[k].actualEventId = e })

TimesFailed(e) ==
  Cardinality({ k \in 1..Len(results.failed) : results.failed[k].actualEventId = e })

InputEvents == SeqRange(events)

\* The chunk of e has been through the forEach.
Classified(e) == enginePc = "done" \/ (enginePc = "running" /\ e <= i)

DeleteSucceeded(e) == cause[e].kind = "ok"

DeleteFailed(e) == cause[e].kind \in {"http", "network", "auth"}

\* The first event of chunk c, counted from 0, and the chunk of an event.
ChunkOf(e) == (e - 1) \div batchSize

\* C1: when performBulkDeletion returns, every input event is in exactly one
\* of results.successful and results.failed, exactly once, so the two
\* lengths add up to the length of the input.
EveryEventReportedOnce ==
  enginePc = "done" =>
    /\ Len(results.successful) + Len(results.failed) = Len(events)
    /\ \A e \in InputEvents : TimesSuccessful(e) + TimesFailed(e) = 1
    /\ SuccessfulIds \cup FailedIds = InputEvents

\* A run over several chunks has returned with both lists non-empty.
ReportedOnceWitness ==
  /\ enginePc = "done"
  /\ Len(events) > batchSize
  /\ results.successful # <<>>
  /\ results.failed # <<>>

\* C2: deleteEvent sends at most two DELETE requests for one event: the
\* first, and one retry after a 401.
AtMostTwoDeletes == \A e \in Events : sends[e] <= 2

\* C3: an event of a classified chunk is in results.successful exactly when
\* its delete succeeded and in results.failed exactly when it failed,
\* whatever happened to the other events of its chunk.
SiblingsIndependent ==
  \A e \in InputEvents :
    Classified(e) =>
      /\ DeleteSucceeded(e) <=> e \in SuccessfulIds
      /\ DeleteFailed(e) <=> e \in FailedIds
      /\ DeleteSucceeded(e) \/ DeleteFailed(e)

\* In one chunk an event failed and a later sibling still succeeded.
SiblingsWitness ==
  /\ enginePc = "done"
  /\ \E e1, e2 \in InputEvents :
       /\ e1 < e2
       /\ ChunkOf(e1) = ChunkOf(e2)
       /\ DeleteFailed(e1) /\ e1 \in FailedIds
       /\ DeleteSucceeded(e2) /\ e2 \in SuccessfulIds

\* C4: a delete answered with a transient status (429, 500, 502, 503, 504)
\* is reported in results.failed with retryable = true.
TransientStatusRetryable ==
  \A k \in 1..Len(results.failed) :
    LET f == results.failed[k] IN
      (cause[f.actualEventId].kind = "http"
         /\ cause[f.actualEventId].status \in retryableCodes)
        => f.retryable

\* C5: a delete answered with a status that is not transient is reported
\* with retryable = false; and with the input e1, e2, e3 of which only e3 is
\* refused, with 403, successful holds e1 and e2 and failed holds e3 alone,
\* not retryable.
FinalStatusNotRetryable ==
  /\ \A k \in 1..Len(results.failed) :
       LET f == results.failed[k] IN
         (enginePc # "threw"
            /\ cause[f.actualEventId].kind = "http"
            /\ cause[f.actualEventId].status \notin retryableCodes)
           => ~f.retryable
  /\ (/\ enginePc = "done"
      /\ Len(events) = 3
      /\ DeleteSucceeded(1) /\ DeleteSucceeded(2)
      /\ cause[3] = [kind |-> "http", status |-> 403])
       => /\ results.successful = <<SuccessEntry(1), SuccessEntry(2)>>
          /\ Len(results.failed) = 1
          /\ results.failed[1].actualEventId = 3
          /\ results.failed[1].error = HttpErrorMessage(403)
          /\ ~results.failed[1].retryable

\* The run of e1, e2, e3 in which only e3 was refused with 403 has returned.
ForbiddenThirdWitness ==
  /\ enginePc = "done"
  /\ Len(events) = 3
  /\ DeleteSucceeded(1) /\ DeleteSucceeded(2)
  /\ cause[3] = [kind |-> "http", status |-> 403]
  /\ FailedIds = {3}

\* C6: a delete that got no response (fetch rejected) is reported in
\* results.failed with retryable = true.
NetworkFailureRetryable ==
  \A k \in 1..Len(results.failed) :
    cause[results.failed[k].actualEventId].kind = "network"
      => results.failed[k].retryable

\* ---------------------------------------------------------- the limiter
RECURSIVE SumLog(_, _)
SumLog(from, to) == IF from > to THEN 0 ELSE grantLog[from] + SumLog(from + 1, to)

MaxNat(a, b) == IF a > b THEN a ELSE b

\* The acquire() calls that returned in the windowMs ticks ending at t.
GrantsInWindow(t) == SumLog(MaxNat(0, t - windowMs + 1), t)

TimesRecorded(t) == Cardinality({ k \in 1..Len(requests) : requests[k] = t })

JustGranted(c) == cpc[c] = "returned" /\ grantedAt[c] = now

\* C7: in no trailing window of windowMs ticks do more than maxRequests
\* calls of acquire() return, whoever calls and whenever the timers fire.
WindowNeverExceeded == \A t \in 0..MaxTime : GrantsInWindow(t) <= maxRequests

\* A full window made a caller sleep, and it was granted in a later window.
WindowWitness ==
  /\ SumLog(0, MaxTime) > maxRequests
  /\ \E t \in 0..MaxTime : GrantsInWindow(t) = maxRequests
  /\ \E c \in Callers : JustGranted(c) /\ blockedOn[c] # None

\* C8: an acquire() that found maxRequests timestamps counted in the window
\* does not return before windowMs has passed since the oldest of them.
NotBeforeWindowElapsed ==
  \A c \in Callers :
    (cpc[c] = "returned" /\ blockedOn[c] # None)
      => grantedAt[c] - blockedOn[c] >= windowMs

\* A blocked caller was granted exactly windowMs after the oldest timestamp.
ElapsedWitness ==
  \E c \in Callers :
    /\ cpc[c] = "returned"
    /\ blockedOn[c] # None
    /\ grantedAt[c] - blockedOn[c] = windowMs

\* C9: right after an acquire() returns, requests holds at most maxRequests
\* timestamps and none of them is older than windowMs.
AfterAcquireBounded ==
  [][ \A c \in Callers :
        (cpc[c] # "returned" /\ cpc'[c] = "returned")
          => /\ Len(requests') <= maxRequests
             /\ \A k \in 1..Len(requests') : now' - requests'[k] <= windowMs ]_vars

\* An acquire() has just returned into a full list from which an older
\* timestamp had been pruned.
BoundedWitness ==
  /\ \E c \in Callers : JustGranted(c)
  /\ Len(requests) = maxRequests
  /\ SumLog(0, MaxTime) > maxRequests

\* C10: check-and-record is one step: every grant still inside the window
\* is in requests as often as it was made, and the callers holding a grant
\* made inside the window are never more than maxRequests, also when
\* several sleepers wake at the same tick for one free slot.
AcquireAtomic ==
  /\ \A t \in 0..now : now - t < windowMs => TimesRecorded(t) = grantLog[t]
  /\ Cardinality({ c \in Callers :
                     cpc[c] = "returned" /\ now - grantedAt[c] < windowMs })
       <= maxRequests

\* Two callers blocked on the same timestamp woke for one free slot: one was
\* granted, the other went back to sleep.
OneSlotWitness ==
  \E c1, c2 \in Callers :
    /\ c1 # c2
    /\ JustGranted(c1)
    /\ blockedOn[c1] # None
    /\ blockedOn[c2] = blockedOn[c1]
    /\ cpc[c2] = "sleeping"
    /\ cwake[c2] > now
    /\ Len(requests) = maxRequests
    /\ TimesRecorded(now) = 1

\* ------------------------------------------------------- C11 .. C20
\* C11 as amended: once no new call is made, every acquire() that sleeps
\* returns, as long as time advances and due timers fire.
SleeperReturnsOnceQuiet ==
  \A c \in Callers : (closed /\ cpc[c] = "sleeping") ~> (cpc[c] = "returned")

\* C11 as stated: every acquire() that sleeps returns, whatever calls the
\* other callers go on making.
EverySleeperReturns ==
  \A c \in Callers : (cpc[c] = "sleeping") ~> (cpc[c] = "returned")

\* After the calls stopped, a caller that had found the window full was
\* granted while another one still sleeps.
QuietWitness ==
  /\ closed
  /\ \E c1, c2 \in Callers :
       /\ JustGranted(c1) /\ blockedOn[c1] # None
       /\ cpc[c2] = "sleeping"

\* C12: nothing of a later chunk starts -- no acquire(), no DELETE -- before
\* every attempt of each earlier chunk has settled and is in the report.
ChunksSequential ==
  \A e1, e2 \in InputEvents :
    (ChunkOf(e1) < ChunkOf(e2) /\ (pc[e2] # "pending" \/ sends[e2] > 0))
      => /\ pc[e1] \in {"fulfilled", "rejected"}
         /\ TimesSuccessful(e1) + TimesFailed(e1) >= 1

\* The second chunk is in flight.
SecondChunkWitness ==
  /\ enginePc = "running"
  /\ i > 0
  /\ \E e \in InputEvents : ChunkOf(e) > 0 /\ pc[e] \in {"token", "fetching", "waiting"}

RECURSIVE Concat(_)
Concat(seqs) == IF seqs = <<>> THEN <<>> ELSE Head(seqs) \o Concat(Tail(seqs))

CeilDiv(n, b) == (n + b - 1) \div b

\* C13: a run over N events slices ceil(N / batchSize) chunks, each of at
\* most batchSize events and only the last one shorter, whose concatenation
\* is the input list.
ChunkPartition ==
  enginePc = "done" =>
    /\ Len(chunks) = CeilDiv(Len(events), batchSize)
    /\ \A k \in 1..Len(chunks) :
         /\ Len(chunks[k]) >= 1
         /\ Len(chunks[k]) <= batchSize
         /\ k < Len(chunks) => Len(chunks[k]) = batchSize
    /\ Concat(chunks) = events

\* A run of two chunks, the last one short, has returned.
PartitionWitness ==
  /\ enginePc = "done"
  /\ Len(chunks) >= 2
  /\ Len(chunks[Len(chunks)]) < batchSize

InFlight == { e \in Events : pc[e] \in {"waiting", "token", "fetching"} }

\* C14: at most batchSize attempts are in flight at any moment.
InFlightBounded == Cardinality(InFlight) <= batchSize

\* A full chunk of a longer list is in flight.
InFlightWitness ==
  /\ Len(events) > batchSize
  /\ Cardinality(InFlight) = batchSize

\* C15: no more than maxRequests DELETE requests are sent within windowMs,
\* the request sent again after a 401 included.
SendRateBounded == Len(sent) <= maxRequests

\* The chunk being processed holds a null element.
NullInChunk == \E k \in 1..Len(Batch(events, i)) : Batch(events, i)[k] \in malformed

ChunkFaultDowngraded ==
  /\ enginePc # "threw"
  /\ \A c \in caught :
       \A k \in 1..Len(Batch(events, c)) :
         LET e == Batch(events, c)[k] IN
           /\ TimesFailed(e) = 1
           /\ TimesSuccessful(e) = 0
           /\ \A j \in 1..Len(results.failed) :
                results.failed[j].actualEventId = e => results.failed[j].retryable

RateLimitedRetried ==
  \A e \in InputEvents :
    (Classified(e) /\ cause[e].kind = "http" /\ cause[e].status = 429)
      => sends[e] > answered[e]

\* C20: an event whose first DELETE was answered 401 and whose second was
\* acknowledged is in results.successful, once, and not in results.failed.
ExpiredThenAcknowledged ==
  \A e \in InputEvents :
    (Classified(e) /\ sends[e] = 2 /\ DeleteSucceeded(e))
      => TimesSuccessful(e) = 1 /\ TimesFailed(e) = 0

\* Such an event is in the report of a run that has returned.
ExpiredWitness ==
  /\ enginePc = "done"
  /\ \E e \in InputEvents :
       sends[e] = 2 /\ answered[e] = 2 /\ DeleteSucceeded(e) /\ e \in SuccessfulIds

\* ------------------------------------------------- the content script
\* The content script (CalendarExtension, CustomDialogManager) on a calendar
\* page: the bulk delete dialog with its filter, the final confirmation, and
\* performBulkDeletion, which sends the BULK_DELETE_EVENTS message.  Each
\* action is one event handler, or one continuation after an await.

\* The entries of readOnlyCalendars.
CalUsaHoliday ==
  <<"e", "n", ".", "u", "s", "a", "#", "h", "o", "l", "i", "d", "a", "y",
    "@", "g", "r", "o", "u", "p", ".", "v", ".", "c", "a", "l", "e", "n",
    "d", "a", "r", ".", "g", "o", "o", "g", "l", "e", ".", "c", "o", "m">>

CalUkHoliday ==
  <<"e", "n", ".", "u", "k", "#", "h", "o", "l", "i", "d", "a", "y", "@",
    "g", "r", "o", "u", "p", ".", "v", ".", "c", "a", "l", "e", "n", "d",
    "a", "r", ".", "g", "o", "o", "g", "l", "e", ".", "c", "o", "m">>

CalCanadianHoliday ==
  <<"e", "n", ".", "c", "a", "n", "a", "d", "i", "a", "n", "#", "h", "o",
    "l", "i", "d", "a", "y", "@", "g", "r", "o", "u", "p", ".", "v", ".",
    "c", "a", "l", "e", "n", "d", "a", "r", ".", "g", "o", "o", "g", "l",
    "e", ".", "c", "o", "m">>

CalJewishHoliday ==
  <<"j", "e", "w", "i", "s", "h", "#", "h", "o", "l", "i", "d", "a", "y",
    "@", "g", "r", "o", "u", "p", ".", "v", ".", "c", "a", "l", "e", "n",
    "d", "a", "r", ".", "g", "o", "o", "g", "l", "e", ".", "c", "o", "m">>

CalChristianHoliday ==
  <<"e", "n", ".", "c", "h", "r", "i", "s", "t", "i", "a", "n", "#", "h",
    "o", "l", "i", "d", "a", "y", "@", "g", "r", "o", "u", "p", ".", "v",
    ".", "c", "a", "l", "e", "n", "d", "a", "r", ".", "g", "o", "o", "g",
    "l", "e", ".", "c", "o", "m">>

CalIslamicHoliday ==
  <<"e", "n", ".", "i", "s", "l", "a", "m", "i", "c", "#", "h", "o", "l",
    "i", "d", "a", "y", "@", "g", "r", "o", "u", "p", ".", "v", ".", "c",
    "a", "l", "e", "n", "d", "a", "r", ".", "g", "o", "o", "g", "l", "e",
    ".", "c", "o", "m">>

readOnlyCalendars ==
  {CalUsaHoliday,
   CalUkHoliday,
   CalCanadianHoliday,
   CalJewishHoliday,
   CalChristianHoliday,
   CalIslamicHoliday}

\* '#holiday@'
StrHolidayMarker ==
  <<"#", "h", "o", "l", "i", "d", "a", "y", "@">>

\* A holiday calendar that readOnlyCalendars does not list, and a calendar
\* of the user.
CalGermanHoliday ==
  <<"d", "e", ".", "g", "e", "r", "m", "a", "n", "#", "h", "o", "l", "i",
    "d", "a", "y", "@", "g", "r", "o", "u", "p", ".", "v", ".", "c", "a",
    "l", "e", "n", "d", "a", "r", ".", "g", "o", "o", "g", "l", "e", ".",
    "c", "o", "m">>

CalUser ==
  <<"m", "e", "@", "e", "x", "a", "m", "p", "l", "e", ".", "c", "o", "m">>

\* A DOM element of the page with a data-eventid attribute: what atob and
\* split make of the attribute (decodes: at least two parts; eventId: the
\* first part after its date prefix, empty when the decoded text starts with
\* a space; calendarId: the rest), the element's title text, and its
\* data-start-time attribute.
NoStartTime == [kind |-> "none", instant |-> 0]
DigitsStartTime == [kind |-> "digits", instant |-> 0]
IsoStartTime(t) == [kind |-> "iso", instant |-> t]

Element(id, decodes, eventId, calendarId, title, startTime) ==
  [id |-> id, decodes |-> decodes, eventId |-> eventId,
   calendarId |-> calendarId, title |-> title, startTime |-> startTime]

PageElements ==
  { Element(1, TRUE, <<"e", "1">>, CalUser, <<"A", "b">>, IsoStartTime(3)),
    Element(2, TRUE, <<"e", "2">>, CalUser, <<"c", " ", "b">>, IsoStartTime(4)),
    Element(3, TRUE, <<"e", "3">>, CalUser, <<"c">>, IsoStartTime(5)),
    Element(4, TRUE, <<"e", "4">>, CalUser, <<"A", "b">>, NoStartTime),
    Element(5, TRUE, <<"e", "5">>, CalUser, <<"c", " ", "b">>, DigitsStartTime),
    Element(6, TRUE, <<"e", "6">>, CalUsaHoliday, <<"A", "b">>, IsoStartTime(4)),
    Element(7, TRUE, <<"e", "7">>, CalGermanHoliday, <<"c">>, NoStartTime),
    Element(8, FALSE, <<>>, <<>>, <<"c", " ", "b">>, IsoStartTime(3)),
    Element(9, TRUE, <<>>, CalUser, <<"A", "b">>, IsoStartTime(4)) }

\* What the user can type into the title filter.
TitleValues == { <<>>, <<"a", "B">>, <<" ", "b">>, <<" ">> }

\* The value of a date input: 0 for the empty string, or a day.
DateValues == 0..MaxDay

\* A holiday calendar is taken as deletable.
CanDeleteAnything(calendarId) == TRUE

\* canDeleteFromCalendar(calendarId)
canDeleteFromCalendar(calendarId) ==
  IF \E readOnly \in readOnlyCalendars : Includes(calendarId, readOnly)
    THEN FALSE
  ELSE IF Includes(calendarId, StrHolidayMarker)
    THEN FALSE
  ELSE TRUE

\* parseEventId(domEventId); null is the empty sequence here, which is falsy
\* as the empty string is.
parseEventId(element) ==
  IF element.decodes
    THEN [eventId |-> element.eventId,
          calendarId |-> element.calendarId,
          canDelete |-> canDeleteFromCalendar(element.calendarId)]
    ELSE [eventId |-> <<>>, calendarId |-> <<>>, canDelete |-> FALSE]

\* extractEventData(element)
extractEventData(element) ==
  LET parsedEventData == parseEventId(element) IN
    [id |-> element.id,
     actualEventId |-> parsedEventData.eventId,
     calendarId |-> parsedEventData.calendarId,
     title |-> element.title,
     startTime |-> element.startTime,
     canDelete |-> parsedEventData.canDelete]

\* String.prototype.toLowerCase, over the letters in use.
LowerOf(c) ==
  CASE c = "A" -> "a"
    [] c = "B" -> "b"
    [] c = "C" -> "c"
    [] OTHER -> c

\* A comparison of titles that keeps the case.
KeepCase(s) == s

ToLowerCase(s) == [k \in 1..Len(s) |-> LowerOf(s[k])]

\* String.prototype.trim
RECURSIVE TrimStart(_)
TrimStart(s) == IF s # <<>> /\ Head(s) = " " THEN TrimStart(Tail(s)) ELSE s

RECURSIVE TrimEnd(_)
TrimEnd(s) ==
  IF s # <<>> /\ s[Len(s)] = " " THEN TrimEnd(SubSeq(s, 1, Len(s) - 1)) ELSE s

Trim(s) == TrimEnd(TrimStart(s))

\* The time value of an Invalid Date.
NaN == 0 - 2

\* new Date(dateFrom.value): midnight of the day.
NewDateOfDay(day) == day * DayTicks

\* new Date(event.startTime): a string of digits does not parse.
NewDateOfStart(startTime) ==
  IF startTime.kind = "iso" THEN startTime.instant ELSE NaN

\* a < b on Dates: false when either is an Invalid Date.
Before(a, b) == a # NaN /\ b # NaN /\ a < b

\* The callback of allEvents.filter in updateFilteredEvents.
Retained(event, titleKeyword, fromDate, toDate) ==
  IF ~event.canDelete THEN FALSE
  ELSE IF titleKeyword # <<>> /\ ~Includes(ToLowerCase(event.title), titleKeyword)
    THEN FALSE
  ELSE IF /\ event.startTime.kind # "none"
          /\ fromDate # None
          /\ Before(NewDateOfStart(event.startTime), fromDate)
    THEN FALSE
  ELSE IF /\ event.startTime.kind # "none"
          /\ toDate # None
          /\ Before(toDate, NewDateOfStart(event.startTime))
    THEN FALSE
  ELSE TRUE

RECURSIVE Reverse(_)
Reverse(s) == IF s = <<>> THEN <<>> ELSE Append(Reverse(Tail(s)), Head(s))

\* A filter that lists the newest match first.
SelectReversed(all, title, from, to) ==
  LET titleKeyword == Trim(ToLowerCase(title))
      fromDate == IF from # 0 THEN NewDateOfDay(from) ELSE None
      toDate == IF to # 0 THEN NewDateOfDay(to) ELSE None
  IN Reverse(SelectSeq(all, LAMBDA event : Retained(event, titleKeyword, fromDate, toDate)))

\* A filter that loses its first match.
SelectSkippingFirst(all, title, from, to) ==
  LET titleKeyword == Trim(ToLowerCase(title))
      fromDate == IF from # 0 THEN NewDateOfDay(from) ELSE None
      toDate == IF to # 0 THEN NewDateOfDay(to) ELSE None
      kept == SelectSeq(all, LAMBDA event : Retained(event, titleKeyword, fromDate, toDate))
  IN IF kept = <<>> THEN kept ELSE Tail(kept)

\* updateFilteredEvents: the new value of filteredEvents, from the values of
\* the three inputs.
updateFilteredEvents(all, title, from, to) ==
  LET titleKeyword == Trim(ToLowerCase(title))
      fromDate == IF from # 0 THEN NewDateOfDay(from) ELSE None
      toDate == IF to # 0 THEN NewDateOfDay(to) ELSE None
  IN SelectSeq(all, LAMBDA event : Retained(event, titleKeyword, fromDate, toDate))

\* A dialog that skips its initial update.
AttachWithoutUpdate(all) == all

\* attachBulkDeleteEvents: let filteredEvents = [...allEvents], and the
\* initial update with the inputs empty.
attachBulkDeleteEvents(all) == updateFilteredEvents(all, <<>>, 0, 0)

\* this.eventCache.get(domEventId)
InCache(cache, id) == \E k \in 1..Len(cache) : cache[k].id = id

CacheGet(cache, id) == cache[CHOOSE k \in 1..Len(cache) : cache[k].id = id]

\* A test of canDelete alone.
SendableByFlag(cachedEvent) == cachedEvent.canDelete

\* The condition under which performBulkDeletion sends a cached event.
Sendable(cachedEvent) ==
  /\ cachedEvent.canDelete
  /\ cachedEvent.actualEventId # <<>>
  /\ cachedEvent.calendarId # <<>>

ToDelete(cachedEvent) ==
  [domEventId |-> cachedEvent.id,
   actualEventId |-> cachedEvent.actualEventId,
   calendarId |-> cachedEvent.calendarId,
   title |-> cachedEvent.title]

NonDeletable(cachedEvent) ==
  [domEventId |-> cachedEvent.id, title |-> cachedEvent.title]

\* CalendarExtension.performBulkDeletion: the loop over eventDomIds that
\* fills eventsToDelete and nonDeletableEvents.
RECURSIVE Convert(_, _, _)
Convert(eventDomIds, cache, acc) ==
  IF eventDomIds = <<>> THEN acc
  ELSE LET domEventId == Head(eventDomIds)
           next ==
             IF ~InCache(cache, domEventId) THEN acc
             ELSE IF Sendable(CacheGet(cache, domEventId))
               THEN [acc EXCEPT !.eventsToDelete =
                       Append(@, ToDelete(CacheGet(cache, domEventId)))]
               ELSE [acc EXCEPT !.nonDeletableEvents =
                       Append(@, NonDeletable(CacheGet(cache, domEventId)))]
       IN Convert(Tail(eventDomIds), cache, next)

NothingPending == [eventsToDelete |-> <<>>, nonDeletableEvents |-> <<>>]

NoResponse == [kind |-> "none", successful |-> <<>>, failed |-> <<>>]

\* filteredEvents.map(e => e.id)
IdsOf(evs) == [k \in 1..Len(evs) |-> evs[k].id]

workerVars == <<now, requests, sent, engineVars, callerVars>>

\* The page's events as the cache holds them after cacheEvents: up to
\* MaxShown elements of the page, in the order they were found.
Caches ==
  UNION { { [k \in 1..n |-> extractEventData(f[k])] :
              f \in { g \in [1..n -> PageElements] :
                        \A j, k \in 1..n : j # k => g[j].id # g[k].id } } :
          n \in 0..MaxShown }

InitDialog ==
  /\ now = 0
  /\ requests = <<>>
  /\ sent = <<>>
  /\ events = <<>>
  /\ malformed = {}
  /\ logging = FALSE
  /\ InitEngine
  /\ InitCallers
  /\ \E cache \in Caches : InitContent(cache)
  /\ InitExtra

\* CalendarExtension.showBulkDeleteDialog up to the await of the dialog
\* (getCurrentViewEvents finds the cache, or nothing at all).
showBulkDeleteDialog ==
  /\ dpc = "page"
  /\ ~isProcessing
  /\ IF eventCache = <<>>
       THEN /\ dpc' = "finished"
            /\ UNCHANGED <<allEvents, filteredEvents>>
       ELSE /\ dpc' = "bulk"
            /\ allEvents' = eventCache
            /\ filteredEvents' = attachBulkDeleteEvents(eventCache)
  /\ UNCHANGED <<eventCache, titleValue, fromValue, toValue, settledDialog,
               isProcessing, pending, message, response, touched, clicked>>
  /\ UNCHANGED <<workerVars, extraVars>>

DialogShown == dpc \in {"bulk", "confirm"}

\* The input listener of the title filter.
InputTitle(value) ==
  /\ DialogShown
  /\ value # titleValue
  /\ titleValue' = value
  /\ filteredEvents' = updateFilteredEvents(allEvents, value, fromValue, toValue)
  /\ touched' = TRUE
  /\ UNCHANGED <<eventCache, dpc, allEvents, fromValue, toValue, settledDialog,
               isProcessing, pending, message, response, clicked>>
  /\ UNCHANGED <<workerVars, extraVars>>

\* The change listener of the from-date input.
ChangeDateFrom(value) ==
  /\ DialogShown
  /\ value # fromValue
  /\ fromValue' = value
  /\ filteredEvents' = updateFilteredEvents(allEvents, titleValue, value, toValue)
  /\ touched' = TRUE
  /\ UNCHANGED <<eventCache, dpc, allEvents, titleValue, toValue, settledDialog,
               isProcessing, pending, message, response, clicked>>
  /\ UNCHANGED <<workerVars, extraVars>>

\* The change listener of the to-date input.
ChangeDateTo(value) ==
  /\ DialogShown
  /\ value # toValue
  /\ toValue' = value
  /\ filteredEvents' = updateFilteredEvents(allEvents, titleValue, fromValue, value)
  /\ touched' = TRUE
  /\ UNCHANGED <<eventCache, dpc, allEvents, titleValue, fromValue, settledDialog,
               isProcessing, pending, message, response, clicked>>
  /\ UNCHANGED <<workerVars, extraVars>>

\* The click listener of the dialog's Cancel button: closeDialog and
\* resolve(null), on which showBulkDeleteDialog returns.  A final
\* confirmation that is open stays open.
ClickCancel ==
  /\ DialogShown
  /\ dpc' = IF dpc = "confirm" THEN "orphan" ELSE "finished"
  /\ settledDialog' = TRUE
  /\ clicked' = [clicked EXCEPT !.last = "cancel"]
  /\ UNCHANGED <<eventCache, allEvents, filteredEvents, titleValue, fromValue,
               toValue, isProcessing, pending, message, response, touched>>
  /\ UNCHANGED <<workerVars, extraVars>>

\* The click listener of the dialog's Delete button, up to the await of
\* showConfirm.  The button is disabled while filteredEvents is empty.
ClickDelete ==
  /\ dpc = "bulk"
  /\ filteredEvents # <<>>
  /\ dpc' = "confirm"
  /\ clicked' = [clicked EXCEPT !.delete = TRUE, !.last = "delete"]
  /\ UNCHANGED <<eventCache, allEvents, filteredEvents, titleValue, fromValue,
               toValue, settledDialog, isProcessing, pending, message, response,
               touched>>
  /\ UNCHANGED <<workerVars, extraVars>>

\* CalendarExtension.performBulkDeletion from the check of
\* eventsToDelete.length on: the alert and the return, or sendMessage.
SendOrGiveUp(converted) ==
  IF converted.eventsToDelete = <<>>
    THEN /\ dpc' = "finished"
         /\ isProcessing' = FALSE
         /\ pending' = NothingPending
         /\ UNCHANGED message
    ELSE /\ dpc' = "sending"
         /\ isProcessing' = TRUE
         /\ pending' = converted
         /\ message' = converted.eventsToDelete

\* resolve({ eventIds, filters }) of the dialog's promise, and with it
\* showBulkDeleteDialog's call of performBulkDeletion(confirmed.eventIds) up
\* to its first await: the alert about events that cannot be deleted, or
\* sendMessage.
ResolveWithSelection ==
  LET converted == Convert(IdsOf(filteredEvents), eventCache, NothingPending) IN
    /\ settledDialog' = TRUE
    /\ IF converted.nonDeletableEvents # <<>>
         THEN /\ dpc' = "warning"
              /\ isProcessing' = TRUE
              /\ pending' = converted
              /\ UNCHANGED message
         ELSE SendOrGiveUp(converted)

\* The final confirmation is answered.  Cancel leaves the dialog open;
\* Confirm closes it and resolves its promise, unless Cancel of the dialog
\* has resolved it before.
AnswerWith(finalConfirm, button) ==
  /\ dpc \in {"confirm", "orphan"}
  /\ clicked' = [clicked EXCEPT !.last = button,
                               !.confirm = @ \/ button = "confirm"]
  /\ IF dpc = "orphan"
       THEN /\ dpc' = "finished"
            /\ UNCHANGED <<settledDialog, isProcessing, pending, message>>
       ELSE IF finalConfirm
         THEN ResolveWithSelection
         ELSE /\ dpc' = "bulk"
              /\ UNCHANGED <<settledDialog, isProcessing, pending, message>>
  /\ UNCHANGED <<eventCache, allEvents, filteredEvents, titleValue, fromValue,
               toValue, response, touched>>
  /\ UNCHANGED <<workerVars, extraVars>>

\* A Delete handler that does not look at the answer.
AnswerConfirmUnchecked(finalConfirm) ==
  AnswerWith(TRUE, IF finalConfirm THEN "confirm" ELSE "keep")

\* The click listeners of showConfirm and the rest of the Delete handler.
AnswerConfirm(finalConfirm) ==
  AnswerWith(finalConfirm, IF finalConfirm THEN "confirm" ELSE "keep")

\* The OK button of the alert about events that cannot be deleted.
DismissWarning ==
  /\ dpc = "warning"
  /\ SendOrGiveUp(pending)
  /\ clicked' = [clicked EXCEPT !.last = "ok"]
  /\ UNCHANGED <<eventCache, allEvents, filteredEvents, titleValue, fromValue,
               toValue, settledDialog, response, touched>>
  /\ UNCHANGED <<workerVars, extraVars>>

\* A handler of the answer that drops every event of the message from the
\* cache, the failed ones too.
RespondResultClearingAll(deleted) ==
  /\ dpc = "sending"
  /\ LET successful == SelectSeq(message, LAMBDA m : m.domEventId \in deleted)
         failed == SelectSeq(message, LAMBDA m : m.domEventId \notin deleted)
     IN /\ response' = [kind |-> "result", successful |-> successful, failed |-> failed]
        /\ eventCache' =
             SelectSeq(eventCache,
                       LAMBDA event : \A k \in 1..Len(message) :
                                        message[k].domEventId # event.id)
  /\ dpc' = "finished"
  /\ isProcessing' = FALSE
  /\ UNCHANGED <<allEvents, filteredEvents, titleValue, fromValue, toValue,
               settledDialog, pending, message, touched, clicked>>
  /\ UNCHANGED <<workerVars, extraVars>>

\* The worker's answer arrives: { success: true, result } with every event
\* of the message in result.successful or in result.failed, in the order
\* of the message; the successful ones leave the cache.
RespondResult(deleted) ==
  /\ dpc = "sending"
  /\ LET successful == SelectSeq(message, LAMBDA m : m.domEventId \in deleted)
         failed == SelectSeq(message, LAMBDA m : m.domEventId \notin deleted)
     IN /\ response' = [kind |-> "result", successful |-> successful, failed |-> failed]
        /\ eventCache' = SelectSeq(eventCache, LAMBDA event : event.id \notin deleted)
  /\ dpc' = "finished"
  /\ isProcessing' = FALSE
  /\ UNCHANGED <<allEvents, filteredEvents, titleValue, fromValue, toValue,
               settledDialog, pending, message, touched, clicked>>
  /\ UNCHANGED <<workerVars, extraVars>>

\* The worker's answer arrives: { success: false, error }.
RespondError ==
  /\ dpc = "sending"
  /\ response' = [kind |-> "error", successful |-> <<>>, failed |-> <<>>]
  /\ dpc' = "finished"
  /\ isProcessing' = FALSE
  /\ UNCHANGED <<eventCache, allEvents, filteredEvents, titleValue, fromValue,
               toValue, settledDialog, pending, message, touched, clicked>>
  /\ UNCHANGED <<workerVars, extraVars>>

NextDialog ==
  \/ showBulkDeleteDialog
  \/ \E value \in TitleValues : InputTitle(value)
  \/ \E value \in DateValues : ChangeDateFrom(value)
  \/ \E value \in DateValues : ChangeDateTo(value)
  \/ ClickCancel
  \/ ClickDelete
  \/ \E finalConfirm \in BOOLEAN : AnswerConfirm(finalConfirm)
  \/ DismissWarning
  \/ \E deleted \in SUBSET { message[k].domEventId : k \in 1..Len(message) } :
       RespondResult(deleted)
  \/ RespondError

SpecDialog == InitDialog /\ [][NextDialog]_vars

\* ------------------------------------------------------------ C21 .. C30
AuthFailed(e) == cause[e].kind = "auth"

\* C26: a credential failure ends only its own attempt: the event is, once
\* its chunk is classified, one entry of results.failed with the failure's
\* message; the run is not aborted by it (an error leaves the run only at a
\* null element); and when the run returns every other event of the input
\* has been attempted and reported as well.
AuthFailureLocal ==
  \A e \in InputEvents :
    AuthFailed(e) =>
      /\ pc[e] = "rejected"
      /\ sends[e] = answered[e]
      /\ Classified(e) =>
           /\ TimesFailed(e) = 1
           /\ TimesSuccessful(e) = 0
           /\ \A k \in 1..Len(results.failed) :
                results.failed[k].actualEventId = e
                  => results.failed[k].error = reason[e].message
      /\ enginePc = "threw" => NullInChunk
      /\ enginePc = "done" =>
           \A e2 \in InputEvents \ {e} :
             /\ cause[e2] # NoCause
             /\ TimesSuccessful(e2) + TimesFailed(e2) = 1

\* A run has returned in which the first event's credential request failed
\* while its sibling and the event of the next chunk were deleted.
AuthFailureWitness ==
  /\ enginePc = "done"
  /\ Len(events) > batchSize
  /\ AuthFailed(1)
  /\ \A e \in InputEvents \ {1} : DeleteSucceeded(e) /\ e \in SuccessfulIds

\* C27: when an error leaves performBulkDeletion, no acquire() has been
\* called and no DELETE request has been sent.
FailsBeforeWork ==
  enginePc = "threw" =>
    /\ requests = <<>>
    /\ \A e \in Events : pc[e] = "pending" /\ sends[e] = 0

\* C30: a DELETE request for an event is sent only by an attempt whose
\* acquire() has returned.
GrantBeforeDelete ==
  [][ \A e \in Events : sends'[e] > sends[e] => pc[e] = "token" ]_vars

\* The DELETE of an event of the second chunk is out, at a time the window
\* of the first chunk's grants has passed.
GrantedThenSentWitness ==
  \E e \in InputEvents :
    /\ ChunkOf(e) > 0
    /\ pc[e] = "fetching"
    /\ sends[e] = 1
    /\ now >= windowMs

\* Position in the input list: the events are numbered in input order.
InInputOrder(entries) ==
  \A j, k \in 1..Len(entries) :
    j < k => entries[j].actualEventId < entries[k].actualEventId

\* C29: in the report of a run, the entries of results.successful, and
\* those of results.failed, stand in the order of their events in the input
\* list, in whatever order the attempts of a chunk settled.
ReportInInputOrder ==
  enginePc \in {"running", "done"} =>
    /\ InInputOrder(results.successful)
    /\ InInputOrder(results.failed)

\* A run has returned in which the second event's attempt settled before
\* the first one's, both went the same way, and the next chunk's event too.
OvertakenWitness ==
  /\ enginePc = "done"
  /\ Len(events) > batchSize
  /\ 2 \in overtook
  /\ \/ Len(results.successful) = Len(events)
     \/ Len(results.failed) = Len(events)

\* The page element a DOM event id belongs to.
ElementOf(id) == CHOOSE element \in PageElements : element.id = id

\* The element's calendar is a holiday calendar, or its id does not parse.
ReadOnlyElement(id) ==
  \/ ~ElementOf(id).decodes
  \/ Includes(ElementOf(id).calendarId, StrHolidayMarker)

InSeq(x, seq) == \E k \in 1..Len(seq) : seq[k] = x

\* The DOM ids of the events sent to the worker or named in its report.
HandledIds ==
  { message[k].domEventId : k \in 1..Len(message) }
    \cup { response.successful[k].domEventId : k \in 1..Len(response.successful) }
    \cup { response.failed[k].domEventId : k \in 1..Len(response.failed) }

\* C21: no event of a holiday calendar, and no event with canDelete false,
\* is in the BULK_DELETE_EVENTS message -- the events the worker sends
\* DELETE requests for -- or in the successful or failed list of its report.
NeverDeletesIneligible ==
  \A id \in HandledIds :
    /\ ~ReadOnlyElement(id)
    /\ \A k \in 1..Len(allEvents) : allEvents[k].id = id => allEvents[k].canDelete

\* A deletion has been reported for a page that showed a read-only event.
IneligibleLeftOutWitness ==
  /\ dpc = "finished"
  /\ response.kind = "result"
  /\ message # <<>>
  /\ \E k \in 1..Len(allEvents) : ~allEvents[k].canDelete

SameLetter(a, b) == a = b \/ {a, b} \in {{"A", "a"}, {"B", "b"}, {"C", "c"}}

ContainsIgnoringCase(title, keyword) ==
  \E p \in 1..(Len(title) - Len(keyword) + 1) :
    \A j \in 1..Len(keyword) : SameLetter(title[p + j - 1], keyword[j])

StartKnown(event) == event.startTime.kind = "iso"

\* The criterion of the claim, for a keyword and the two date inputs.
ShouldRetain(event, keyword) ==
  /\ event.canDelete
  /\ keyword = <<>> \/ ContainsIgnoringCase(event.title, keyword)
  /\ \/ fromValue = 0
     \/ ~StartKnown(event)
     \/ event.startTime.instant >= fromValue * DayTicks
  /\ \/ toValue = 0
     \/ ~StartKnown(event)
     \/ event.startTime.instant <= toValue * DayTicks

\* C22, as first stated: an event is in filteredEvents exactly when it is
\* eligible, its title contains the text of the title filter whatever the
\* case, and its start, if known, is within the two dates.
FilterRetainsExactly ==
  DialogShown =>
    \A k \in 1..Len(allEvents) :
      InSeq(allEvents[k], filteredEvents) <=> ShouldRetain(allEvents[k], titleValue)

\* C22: an event is in filteredEvents exactly when it is eligible, its
\* title contains the text of the title filter with the white space at its
\* ends removed, whatever the case (a text of white space alone is no
\* keyword), and its start, if it is there and parses, is not before
\* midnight of the from-date and not after midnight of the to-date.
FilterRetainsExactlyTrimmed ==
  DialogShown =>
    \A k \in 1..Len(allEvents) :
      InSeq(allEvents[k], filteredEvents)
        <=> ShouldRetain(allEvents[k], Trim(titleValue))

\* The three criteria are set, an event passes and an eligible one does not.
ThreeCriteriaWitness ==
  /\ DialogShown
  /\ Trim(titleValue) # <<>> /\ fromValue # 0 /\ toValue # 0
  /\ filteredEvents # <<>>
  /\ \E k \in 1..Len(allEvents) :
       allEvents[k].canDelete /\ ~InSeq(allEvents[k], filteredEvents)

\* C23: whatever the inputs hold, and before any of them is touched, no
\* event with canDelete false is in filteredEvents.
FilterExcludesIneligible ==
  DialogShown => \A k \in 1..Len(filteredEvents) : filteredEvents[k].canDelete

\* The dialog has just opened on a page with a read-only event and another.
UntouchedDialogWitness ==
  /\ dpc = "bulk"
  /\ ~touched
  /\ clicked.last = "none"
  /\ filteredEvents # <<>>
  /\ \E k \in 1..Len(allEvents) : ~allEvents[k].canDelete

\* C24: filtering the filtered list again, with the same inputs, gives the
\* same list.
FilterIdempotent ==
  DialogShown =>
    /\ filteredEvents = updateFilteredEvents(allEvents, titleValue, fromValue, toValue)
    /\ updateFilteredEvents(filteredEvents, titleValue, fromValue, toValue)
         = filteredEvents

\* A filter with a keyword has kept one event and dropped another.
NarrowedWitness ==
  /\ DialogShown
  /\ touched
  /\ titleValue # <<>>
  /\ filteredEvents # <<>>
  /\ Len(filteredEvents) < Len(allEvents)

RECURSIVE IsSubsequence(_, _)
IsSubsequence(a, b) ==
  IF a = <<>> THEN TRUE
  ELSE IF b = <<>> THEN FALSE
  ELSE IF Head(a) = Head(b) THEN IsSubsequence(Tail(a), Tail(b))
  ELSE IsSubsequence(a, Tail(b))

\* C25: filteredEvents is a subsequence of allEvents, in its order, and
\* while the dialog is shown no step changes allEvents or the cached events.
FilterStableAndPure ==
  [][ DialogShown' =>
        /\ IsSubsequence(filteredEvents', allEvents')
        /\ DialogShown => (allEvents' = allEvents /\ eventCache' = eventCache)
    ]_vars

\* After a change of the inputs the filter keeps two events.
TwoKeptWitness ==
  /\ DialogShown
  /\ touched
  /\ Len(filteredEvents) >= 2

\* C28: the step that sends the BULK_DELETE_EVENTS message is the click on
\* Confirm in the final confirmation, or the OK of the alert that follows
\* it, after a click on Delete; a click on Cancel, in either dialog, sends
\* nothing.
ConfirmedBeforeRequest ==
  [][ message' # message =>
        /\ clicked'.delete
        /\ clicked'.confirm
        /\ clicked'.last \in {"confirm", "ok"}
        /\ settledDialog'
    ]_vars

\* The message is out, sent by the click on Confirm that followed a click on
\* Delete.
ConfirmedWitness ==
  /\ dpc = "sending"
  /\ message # <<>>
  /\ clicked.delete
  /\ clicked.last = "confirm"

\* ------------------------------------- the worker with time that goes on
\* A run whose clock never stops and whose endpoint may answer 401 any
\* number of times.  Past MaxTime the stored times move back with the clock,
\* as in TickLive; past their bounds the counters of requests and of 401
\* answers stop counting.
TickRun ==
  /\ enginePc = "running"
  /\ IF now < MaxTime
       THEN /\ now' = now + 1
            /\ UNCHANGED <<requests, wake>>
       ELSE /\ now' = now
            /\ requests' = [k \in 1..Len(requests) |-> Back(requests[k])]
            /\ wake' = [e \in Events |-> Back(wake[e])]
  /\ UNCHANGED <<events, malformed, enginePc, i, results, pc, reason, sends, cause, expired,
               chunks, caught, answered, sent, overtook, logging, callerVars, dialogVars, extraVars>>

\* The DELETE is sent, counted up to MaxExpired + 1 requests an event.
TokenResolveOnward(e) ==
  IF sends[e] <= MaxExpired
    THEN TokenResolve(e)
    ELSE /\ pc[e] = "token"
         /\ e \notin malformed
         /\ pc' = [pc EXCEPT ![e] = "fetching"]
         /\ UNCHANGED <<now, requests, events, malformed, enginePc, i, results, wake, reason,
                      sends, cause, expired, chunks, caught, answered, sent, overtook,
                      logging, callerVars, dialogVars, extraVars>>

\* The 401 branch of deleteEvent, counted up to MaxExpired answers a run.
Response401Onward(e) ==
  IF expired < MaxExpired
    THEN Response401(e)
    ELSE /\ pc[e] = "fetching"
         /\ pc' = [pc EXCEPT ![e] = "token"]
         /\ answered' = [answered EXCEPT ![e] = sends[e]]
         /\ UNCHANGED <<now, requests, events, malformed, enginePc, i, results, wake, reason,
                      sends, cause, expired, chunks, caught, sent, overtook, logging,
                      callerVars, dialogVars, extraVars>>

\* The credential request of an attempt is answered.
TokenAnswered(e) == TokenResolveOnward(e) \/ TokenReject(e)

\* The DELETE request of an attempt is answered, or fails.
FetchAnswered(e) ==
  \/ ResponseOk(e)
  \/ Response401Onward(e)
  \/ ResponseError(e)
  \/ FetchReject(e)

InitRunLive == InitWorker /\ malformed = {} /\ logging = FALSE

NextRunLive ==
  \/ TickRun
  \/ performBulkDeletion
  \/ \E e \in Events : TimerFire(e)
  \/ \E e \in Events : TokenAnswered(e)
  \/ \E e \in Events : FetchAnswered(e)
  \/ SettleChunk

\* Time advances, due timers fire, every credential request and every remote
\* call is answered, and a promise that has settled runs its continuation.
FairRun ==
  /\ WF_vars(TickRun)
  /\ WF_vars(performBulkDeletion)
  /\ WF_vars(SettleChunk)
  /\ \A e \in Events : WF_vars(TimerFire(e))
  /\ \A e \in Events : WF_vars(TokenAnswered(e))
  /\ \A e \in Events : WF_vars(FetchAnswered(e))

SpecRunLive == InitRunLive /\ [][NextRunLive]_vars /\ FairRun

\* ------------------------------------------- two runs side by side
\* Two BULK_DELETE_EVENTS messages have arrived: handleMessage calls
\* performBulkDeletion for each, and the worker's loop runs a piece of the
\* one, then a piece of the other.  results, rateLimiter, i and batch are
\* locals of the invocation, so each invocation has its own; the second
\* request carries one event.
InitTwoRuns ==
  /\ now = 0
  /\ requests = <<>>
  /\ sent = <<>>
  /\ events \in { [k \in 1..n |-> k] : n \in 1..MaxEvents }
  /\ malformed = {}
  /\ logging = FALSE
  /\ InitEngine
  /\ InitCallers
  /\ InitContent(<<>>)
  /\ InitTokens
  /\ InitFlows
  /\ InitRouter
  /\ other = RunLocals(<<1>>)

\* A RateLimiter that is a field of the router: every run uses the same one.
SwitchRunSharedLimiter ==
  /\ other' = [events |-> events, enginePc |-> enginePc, i |-> i, results |-> results,
               requests |-> requests, pc |-> pc, wake |-> wake, reason |-> reason,
               sends |-> sends, cause |-> cause, chunks |-> chunks, caught |-> caught,
               answered |-> answered]
  /\ events' = other.events
  /\ enginePc' = other.enginePc
  /\ i' = other.i
  /\ results' = other.results
  /\ requests' = requests
  /\ pc' = other.pc
  /\ wake' = other.wake
  /\ reason' = other.reason
  /\ sends' = other.sends
  /\ cause' = other.cause
  /\ chunks' = other.chunks
  /\ caught' = other.caught
  /\ answered' = other.answered
  /\ UNCHANGED <<now, sent, malformed, expired, overtook, logging, callerVars, dialogVars,
               tokenVars, pageVars, routerVars>>

\* The worker's loop turns to the other invocation.
SwitchRun ==
  /\ other' = [events |-> events, enginePc |-> enginePc, i |-> i, results |-> results,
               requests |-> requests, pc |-> pc, wake |-> wake, reason |-> reason,
               sends |-> sends, cause |-> cause, chunks |-> chunks, caught |-> caught,
               answered |-> answered]
  /\ events' = other.events
  /\ enginePc' = other.enginePc
  /\ i' = other.i
  /\ results' = other.results
  /\ requests' = other.requests
  /\ pc' = other.pc
  /\ wake' = other.wake
  /\ reason' = other.reason
  /\ sends' = other.sends
  /\ cause' = other.cause
  /\ chunks' = other.chunks
  /\ caught' = other.caught
  /\ answered' = other.answered
  /\ UNCHANGED <<now, sent, malformed, expired, overtook, logging, callerVars, dialogVars,
               tokenVars, pageVars, routerVars>>

\* Time passes while either run is in progress.
TickTwoRuns ==
  /\ now < MaxTime
  /\ enginePc = "running" \/ other.enginePc = "running"
  /\ now' = now + 1
  /\ UNCHANGED <<requests, sent, engineVars, callerVars, dialogVars, extraVars>>

\* The endpoint acknowledges a DELETE or refuses it with a status; the
\* other ways an attempt can fail are those of specification Spec and are
\* left out here.
NextTwoRuns ==
  \/ TickTwoRuns
  \/ SwitchRun
  \/ performBulkDeletion
  \/ \E e \in Events : TimerFire(e)
  \/ \E e \in Events : TokenResolve(e)
  \/ \E e \in Events : ResponseOk(e)
  \/ \E e \in Events : ResponseError(e)
  \/ SettleChunk

SpecTwoRuns == InitTwoRuns /\ [][NextTwoRuns]_vars

\* ------------------------------------- deleteEvent and the token cache
\* Calls of deleteEvent side by side, with chrome.identity's cache of the
\* access token.  getAuthToken answers with the cached token, or issues a
\* new one and caches it.  removeCachedAuthToken is asynchronous: it reports
\* through a callback when the token has left the cache; deleteEvent passes
\* no callback and does not wait, so when the removal is carried out,
\* relative to the getAuthToken call that follows it, is left to
\* chrome.identity.

\* The arrow function of batch.map calls deleteEvent, which asks for a token.
CallDeleteEvent(a) ==
  /\ apc[a] = "idle"
  /\ apc' = [apc EXCEPT ![a] = "asking"]
  /\ UNCHANGED <<tokenCache, minted, removals, bearer, refused>>
  /\ UNCHANGED <<now, requests, sent, engineVars, callerVars, dialogVars, other, pageVars, routerVars>>

\* getAuthToken calls back with a token, getValidToken resolves and
\* deleteEvent sends the DELETE with 'Authorization': `Bearer ${token}`.
GetAuthTokenAnswers(a) ==
  /\ apc[a] = "asking"
  /\ IF tokenCache # 0
       THEN /\ bearer' = [bearer EXCEPT ![a] = tokenCache]
            /\ UNCHANGED <<tokenCache, minted>>
       ELSE /\ minted < MaxTokens
            /\ minted' = minted + 1
            /\ tokenCache' = minted + 1
            /\ bearer' = [bearer EXCEPT ![a] = minted + 1]
  /\ apc' = [apc EXCEPT ![a] = "fetching"]
  /\ UNCHANGED <<removals, refused>>
  /\ UNCHANGED <<now, requests, sent, engineVars, callerVars, dialogVars, other, pageVars, routerVars>>

\* getAuthToken calls back with chrome.runtime.lastError set: getValidToken
\* rejects and deleteEvent throws.
GetAuthTokenFails(a) ==
  /\ apc[a] = "asking"
  /\ apc' = [apc EXCEPT ![a] = "threw"]
  /\ UNCHANGED <<tokenCache, minted, removals, bearer, refused>>
  /\ UNCHANGED <<now, requests, sent, engineVars, callerVars, dialogVars, other, pageVars, routerVars>>

\* chrome.identity carries out a removeCachedAuthToken({ token }): the token
\* leaves the cache if it is the cached one.
RemoveCachedAuthToken(token) ==
  /\ token \in removals
  /\ removals' = removals \ {token}
  /\ tokenCache' = IF tokenCache = token THEN 0 ELSE tokenCache
  /\ UNCHANGED <<minted, apc, bearer, refused>>
  /\ UNCHANGED <<now, requests, sent, engineVars, callerVars, dialogVars, other, pageVars, routerVars>>

\* response.ok: deleteEvent returns eventId.
DeleteAcknowledged(a) ==
  /\ apc[a] = "fetching"
  /\ apc' = [apc EXCEPT ![a] = "returned"]
  /\ UNCHANGED <<tokenCache, minted, removals, bearer, refused>>
  /\ UNCHANGED <<now, requests, sent, engineVars, callerVars, dialogVars, other, pageVars, routerVars>>

\* response.status === 401: chrome.identity.removeCachedAuthToken({ token })
\* is called, and then this.deleteEvent(calendarId, eventId), which asks for
\* a token.
DeleteUnauthorized(a) ==
  /\ apc[a] = "fetching"
  /\ removals' = removals \cup {bearer[a]}
  /\ refused' = [refused EXCEPT ![a] = bearer[a]]
  /\ apc' = [apc EXCEPT ![a] = "asking"]
  /\ UNCHANGED <<tokenCache, minted, bearer>>
  /\ UNCHANGED <<now, requests, sent, engineVars, callerVars, dialogVars, other, pageVars, routerVars>>

\* Any other answer, or none: deleteEvent throws.
DeleteRefused(a) ==
  /\ apc[a] = "fetching"
  /\ apc' = [apc EXCEPT ![a] = "threw"]
  /\ UNCHANGED <<tokenCache, minted, removals, bearer, refused>>
  /\ UNCHANGED <<now, requests, sent, engineVars, callerVars, dialogVars, other, pageVars, routerVars>>

NextToken ==
  \/ \E a \in Attempts : CallDeleteEvent(a)
  \/ \E a \in Attempts : GetAuthTokenAnswers(a)
  \/ \E a \in Attempts : GetAuthTokenFails(a)
  \/ \E token \in 1..MaxTokens : RemoveCachedAuthToken(token)
  \/ \E a \in Attempts : DeleteAcknowledged(a)
  \/ \E a \in Attempts : DeleteUnauthorized(a)
  \/ \E a \in Attempts : DeleteRefused(a)

SpecToken == InitLimiter /\ [][NextToken]_vars

\* --------------------------------------- the page with several dialogs
\* The content script on a page where showBulkDeleteDialog is called more
\* than once (the bulk button's click listener; the TRIGGER_BULK_DELETE
\* message clicks the button from the popup), where navigation clears the
\* cache (reinitialize) and the MutationObserver fills it (cacheEvents), and
\* where sendMessage may fail.  A dialog's filter inputs can be changed at any
\* time, so filteredEvents is, whenever a handler reads it, the filter's
\* result for some values of the three inputs.
Selections(all) ==
  { updateFilteredEvents(all, title, from, to) :
      title \in TitleValues, from \in DateValues, to \in DateValues }

\* The elements of this page: two events of the user's calendar and an
\* event whose id is missing.
ShortPage == { element \in PageElements : element.id \in {1, 2, 9} }

PageCaches ==
  UNION { { [k \in 1..n |-> extractEventData(f[k])] :
              f \in { g \in [1..n -> ShortPage] :
                        \A j, k \in 1..n : j # k => g[j].id # g[k].id } } :
          n \in 0..MaxShown }

offPageVars ==
  <<workerVars, tokenVars, other, routerVars, dpc, allEvents, filteredEvents, titleValue,
    fromValue, toValue, settledDialog, pending, message, response, touched, clicked>>

InitPage ==
  /\ now = 0
  /\ requests = <<>>
  /\ sent = <<>>
  /\ events = <<>>
  /\ malformed = {}
  /\ logging = FALSE
  /\ InitEngine
  /\ InitCallers
  /\ \E cache \in PageCaches : InitContent(cache)
  /\ InitExtra

\* The performBulkDeletion of a call is between its first line and its end.
InProgress(f) == fpc[f] \in {"warning", "sending"}

\* CalendarExtension.showBulkDeleteDialog up to the await of the dialog.
\* getCurrentViewEvents takes the cache, or, the cache being empty, caches
\* the elements it finds on the page; with no events, an alert and return.
CallShowBulkDeleteDialog(f) ==
  /\ fpc[f] = "idle"
  /\ \A g \in Flows : g < f => fpc[g] # "idle"
  /\ ~isProcessing
  /\ \E found \in (IF eventCache # <<>> THEN {eventCache} ELSE PageCaches) :
       /\ eventCache' = found
       /\ IF found = <<>>
            THEN /\ fpc' = [fpc EXCEPT ![f] = "ended"]
                 /\ ending' = [ending EXCEPT ![f] = "noevents"]
                 /\ UNCHANGED shown
            ELSE /\ fpc' = [fpc EXCEPT ![f] = "bulk"]
                 /\ shown' = [shown EXCEPT ![f] = found]
                 /\ UNCHANGED ending
  /\ UNCHANGED <<isProcessing, asked, deletion>>
  /\ UNCHANGED offPageVars

\* The Cancel button of the bulk delete dialog: resolve(null), on which
\* showBulkDeleteDialog returns.
CancelDialog(f) ==
  /\ fpc[f] \in {"bulk", "confirm"}
  /\ fpc' = [fpc EXCEPT ![f] = IF fpc[f] = "confirm" THEN "orphan" ELSE "ended"]
  /\ ending' = [ending EXCEPT ![f] = "cancelled"]
  /\ UNCHANGED <<eventCache, isProcessing, shown, asked, deletion>>
  /\ UNCHANGED offPageVars

\* The Delete button of the bulk delete dialog, with filteredEvents not
\* empty, up to the await of showConfirm.
PressDelete(f) ==
  /\ fpc[f] = "bulk"
  /\ \E selection \in Selections(shown[f]) : selection # <<>>
  /\ fpc' = [fpc EXCEPT ![f] = "confirm"]
  /\ UNCHANGED <<eventCache, isProcessing, shown, asked, deletion, ending>>
  /\ UNCHANGED offPageVars

\* CalendarExtension.performBulkDeletion from the check of
\* eventsToDelete.length on: the alert, the return and the finally block, or
\* sendMessage.
SendOrReturn(f, lists) ==
  IF lists.eventsToDelete = <<>>
    THEN /\ fpc' = [fpc EXCEPT ![f] = "ended"]
         /\ ending' = [ending EXCEPT ![f] = "nothing"]
         /\ isProcessing' = FALSE
    ELSE /\ fpc' = [fpc EXCEPT ![f] = "sending"]
         /\ isProcessing' = TRUE
         /\ UNCHANGED ending

\* CalendarExtension.performBulkDeletion(eventDomIds) up to its first await:
\* isProcessing = true, the loop over eventDomIds, and the alert about the
\* events that cannot be deleted, or what follows it.
PerformBulkDeletion(f, eventDomIds) ==
  LET lists == Convert(eventDomIds, eventCache, NothingPending) IN
    /\ asked' = [asked EXCEPT ![f] = eventDomIds]
    /\ deletion' = [deletion EXCEPT ![f] = lists]
    /\ IF lists.nonDeletableEvents # <<>>
         THEN /\ fpc' = [fpc EXCEPT ![f] = "warning"]
              /\ isProcessing' = TRUE
              /\ UNCHANGED ending
         ELSE SendOrReturn(f, lists)

\* The final confirmation is answered.  Cancel leaves the dialog open.
\* Confirm closes it and resolves its promise with the ids of
\* filteredEvents, on which showBulkDeleteDialog calls performBulkDeletion;
\* if Cancel of the dialog has resolved the promise before, nothing follows.
AnswerFinalConfirm(f, finalConfirm) ==
  /\ fpc[f] \in {"confirm", "orphan"}
  /\ IF fpc[f] = "orphan"
       THEN /\ fpc' = [fpc EXCEPT ![f] = "ended"]
            /\ UNCHANGED <<isProcessing, asked, deletion, ending>>
       ELSE IF finalConfirm
         THEN \E selection \in Selections(shown[f]) :
                PerformBulkDeletion(f, IdsOf(selection))
         ELSE /\ fpc' = [fpc EXCEPT ![f] = "bulk"]
              /\ UNCHANGED <<isProcessing, asked, deletion, ending>>
  /\ UNCHANGED <<eventCache, shown>>
  /\ UNCHANGED offPageVars

\* The OK button of the alert about events that cannot be deleted.
WarningDismissed(f) ==
  /\ fpc[f] = "warning"
  /\ SendOrReturn(f, deletion[f])
  /\ UNCHANGED <<eventCache, shown, asked, deletion>>
  /\ UNCHANGED offPageVars

\* The worker answers { success: true, result }, every event of the message
\* in result.successful or in result.failed, in the message's order:
\* successful.forEach deletes from the cache, then the finally block.
WorkerAnswers(f, deleted) ==
  /\ fpc[f] = "sending"
  /\ eventCache' = SelectSeq(eventCache, LAMBDA event : event.id \notin deleted)
  /\ fpc' = [fpc EXCEPT ![f] = "ended"]
  /\ ending' = [ending EXCEPT ![f] = "result"]
  /\ isProcessing' = FALSE
  /\ UNCHANGED <<shown, asked, deletion>>
  /\ UNCHANGED offPageVars

\* The worker answers { success: false, error }: an alert, then the finally
\* block.
WorkerAnswersError(f) ==
  /\ fpc[f] = "sending"
  /\ fpc' = [fpc EXCEPT ![f] = "ended"]
  /\ ending' = [ending EXCEPT ![f] = "error"]
  /\ isProcessing' = FALSE
  /\ UNCHANGED <<eventCache, shown, asked, deletion>>
  /\ UNCHANGED offPageVars

\* A catch block with no finally after it.
SendMessageThrowsNoFinally(f) ==
  /\ fpc[f] = "sending"
  /\ fpc' = [fpc EXCEPT ![f] = "ended"]
  /\ ending' = [ending EXCEPT ![f] = "threw"]
  /\ UNCHANGED <<eventCache, isProcessing, shown, asked, deletion>>
  /\ UNCHANGED offPageVars

\* chrome.runtime.sendMessage rejects (no worker to receive the message):
\* the catch block's alert, then the finally block.
SendMessageThrows(f) ==
  /\ fpc[f] = "sending"
  /\ fpc' = [fpc EXCEPT ![f] = "ended"]
  /\ ending' = [ending EXCEPT ![f] = "threw"]
  /\ isProcessing' = FALSE
  /\ UNCHANGED <<eventCache, shown, asked, deletion>>
  /\ UNCHANGED offPageVars

\* reinitialize, 500 ms after a navigation: this.eventCache.clear().
reinitialize ==
  /\ eventCache # <<>>
  /\ eventCache' = <<>>
  /\ UNCHANGED <<isProcessing, pageVars>>
  /\ UNCHANGED offPageVars

\* cacheEvents, called by the MutationObserver for an element added to the
\* page: the element is cached unless its id is.
cacheEvents(element) ==
  /\ Len(eventCache) < MaxShown
  /\ ~InCache(eventCache, element.id)
  /\ eventCache' = Append(eventCache, extractEventData(element))
  /\ UNCHANGED <<isProcessing, pageVars>>
  /\ UNCHANGED offPageVars

NextPage ==
  \/ \E f \in Flows : CallShowBulkDeleteDialog(f)
  \/ \E f \in Flows : CancelDialog(f)
  \/ \E f \in Flows : PressDelete(f)
  \/ \E f \in Flows : \E finalConfirm \in BOOLEAN : AnswerFinalConfirm(f, finalConfirm)
  \/ \E f \in Flows : WarningDismissed(f)
  \/ \E f \in Flows :
       \E deleted \in SUBSET { deletion[f].eventsToDelete[k].domEventId :
                                k \in 1..Len(deletion[f].eventsToDelete) } :
         WorkerAnswers(f, deleted)
  \/ \E f \in Flows : WorkerAnswersError(f)
  \/ \E f \in Flows : SendMessageThrows(f)
  \/ reinitialize
  \/ \E element \in ShortPage : cacheEvents(element)

SpecPage == InitPage /\ [][NextPage]_vars

\* ------------------------------------------------- the worker's router
\* MessageRouter.handleMessage, once per message.  The listener of init
\* calls it and returns true, which keeps sendResponse usable after the
\* listener has returned.  A request is what the sender passed: an object
\* with an action and, for BULK_DELETE_EVENTS, a list of events (or none),
\* or a value that is not an object.
KnownActions ==
  {"BULK_DELETE_EVENTS", "GET_AUTH_TOKEN", "REVOKE_AUTH", "GET_CALENDAR_EVENTS"}

Requests ==
  {NullRequest}
    \cup { [isObject |-> TRUE, action |-> "BULK_DELETE_EVENTS", listed |-> TRUE,
            events |-> [k \in 1..n |-> k]] : n \in 0..MaxListed }
    \cup { [isObject |-> TRUE, action |-> action, listed |-> FALSE, events |-> <<>>] :
             action \in KnownActions \cup {"", "PING"} }

\* The values the awaited call of a request can return.
\* performBulkDeletion returns results, with every listed event in
\* successful or in failed; getValidToken a token; revokeToken nothing;
\* getCalendarEvents data.items || [].
Returns(request) ==
  CASE request.action = "BULK_DELETE_EVENTS" ->
         IF request.listed
         THEN { [successful |-> SelectSeq(request.events, LAMBDA e : e \in deleted),
                 failed |-> SelectSeq(request.events, LAMBDA e : e \notin deleted)] :
                  deleted \in SUBSET SeqRange(request.events) }
         ELSE {}
    [] request.action = "GET_AUTH_TOKEN" -> 1..MaxTokens
    [] request.action = "REVOKE_AUTH" -> {Undefined}
    [] request.action = "GET_CALENDAR_EVENTS" ->
         { [k \in 1..n |-> k] : n \in 0..MaxListed }

\* The messages of the Errors the awaited call of a request can throw:
\* performBulkDeletion reads events.length of a request without events;
\* getValidToken rejects with chrome.runtime.lastError; revokeToken with
\* the failure of its fetch; getCalendarEvents with either of the two, or
\* with its own Error when the response is not ok.
Throws(request) ==
  CASE request.action = "BULK_DELETE_EVENTS" ->
         IF request.listed THEN {} ELSE {"Cannot read properties of undefined"}
    [] request.action = "GET_AUTH_TOKEN" -> {"OAuth2 not granted or revoked."}
    [] request.action = "REVOKE_AUTH" -> {"Failed to fetch"}
    [] request.action = "GET_CALENDAR_EVENTS" ->
         {"OAuth2 not granted or revoked.", "Failed to fetch",
          "Failed to fetch events: Forbidden"}

\* sendResponse(reply) of message m.
sendResponse(m, reply) == replies' = [replies EXCEPT ![m] = Append(@, reply)]

\* sendResponse({ success: true, ... }) of the case of the request's action.
SuccessReply(request, value) ==
  CASE request.action = "BULK_DELETE_EVENTS" -> [success |-> TRUE, result |-> value]
    [] request.action = "GET_AUTH_TOKEN" -> [success |-> TRUE, token |-> value]
    [] request.action = "REVOKE_AUTH" -> [success |-> TRUE]
    [] request.action = "GET_CALENDAR_EVENTS" -> [success |-> TRUE, events |-> value]

\* The catch block: sendResponse({ success: false, error: error.message }).
ErrorReply(error) == [success |-> FALSE, error |-> error.message]

\* handleMessage(request, sender, sendResponse) up to its first await.
\* Reading request.action of null throws inside the try; an action of the
\* switch calls its method and awaits it; any other action is answered by
\* the default branch.
handleMessage(m, request) ==
  /\ hpc[m] = "unreceived"
  /\ \A earlier \in 1..(m - 1) : hpc[earlier] # "unreceived"
  /\ inbox' = [inbox EXCEPT ![m] = request]
  /\ IF ~request.isObject
     THEN /\ sendResponse(m, ErrorReply(NewError("Cannot read properties of null")))
          /\ hpc' = [hpc EXCEPT ![m] = "ended"]
          /\ UNCHANGED awaited
     ELSE IF request.action \in KnownActions
     THEN /\ awaited' = [awaited EXCEPT ![m] = [kind |-> "pending"]]
          /\ hpc' = [hpc EXCEPT ![m] = "awaiting"]
          /\ UNCHANGED replies
     ELSE /\ sendResponse(m, [success |-> FALSE, error |-> "Unknown action"])
          /\ hpc' = [hpc EXCEPT ![m] = "ended"]
          /\ UNCHANGED awaited
  /\ UNCHANGED <<workerVars, dialogVars, tokenVars, other, pageVars>>

\* The awaited call returns.
AwaitedFulfils(m) ==
  /\ awaited[m].kind = "pending"
  /\ \E value \in Returns(inbox[m]) :
       awaited' = [awaited EXCEPT ![m] = [kind |-> "fulfilled", value |-> value]]
  /\ UNCHANGED <<inbox, hpc, replies>>
  /\ UNCHANGED <<workerVars, dialogVars, tokenVars, other, pageVars>>

\* The awaited call throws.
AwaitedRejects(m) ==
  /\ awaited[m].kind = "pending"
  /\ \E text \in Throws(inbox[m]) :
       awaited' = [awaited EXCEPT ![m] = [kind |-> "rejected", error |-> NewError(text)]]
  /\ UNCHANGED <<inbox, hpc, replies>>
  /\ UNCHANGED <<workerVars, dialogVars, tokenVars, other, pageVars>>

\* A handler whose catch block logs the error and answers nothing.
ResumeSilentOnError(m) ==
  /\ hpc[m] = "awaiting"
  /\ awaited[m].kind \in {"fulfilled", "rejected"}
  /\ IF awaited[m].kind = "fulfilled"
     THEN sendResponse(m, SuccessReply(inbox[m], awaited[m].value))
     ELSE UNCHANGED replies
  /\ hpc' = [hpc EXCEPT ![m] = "ended"]
  /\ UNCHANGED <<inbox, awaited>>
  /\ UNCHANGED <<workerVars, dialogVars, tokenVars, other, pageVars>>

\* handleMessage goes on after its await: with the value, to the
\* sendResponse of its case and the break; with the error, to the catch
\* block.
Resume(m) ==
  /\ hpc[m] = "awaiting"
  /\ awaited[m].kind \in {"fulfilled", "rejected"}
  /\ IF awaited[m].kind = "fulfilled"
     THEN sendResponse(m, SuccessReply(inbox[m], awaited[m].value))
     ELSE sendResponse(m, ErrorReply(awaited[m].error))
  /\ hpc' = [hpc EXCEPT ![m] = "ended"]
  /\ UNCHANGED <<inbox, awaited>>
  /\ UNCHANGED <<workerVars, dialogVars, tokenVars, other, pageVars>>

NextRouter ==
  \/ \E m \in Messages : \E request \in Requests : handleMessage(m, request)
  \/ \E m \in Messages : AwaitedFulfils(m)
  \/ \E m \in Messages : AwaitedRejects(m)
  \/ \E m \in Messages : Resume(m)

SpecRouter == InitLimiter /\ [][NextRouter]_vars

\* ------------------------------------------------------------ C31 .. C40
\* C31: while an attempt of the current chunk is in flight, results holds
\* entries of earlier chunks only, and no step changes results.
ReportWaitsForChunk ==
  [][ (/\ enginePc = "running"
       /\ \E k \in 1..Len(Batch(events, i)) :
            pc[Batch(events, i)[k]] \notin {"fulfilled", "rejected"})
        => /\ SuccessfulIds \cup FailedIds \subseteq 1..i
           /\ results' = results
    ]_vars

\* One attempt of the current chunk has settled and is not in the report,
\* because another one is still in flight.
SettledUnreportedWitness ==
  /\ enginePc = "running"
  /\ \E e1, e2 \in SeqRange(Batch(events, i)) :
       /\ pc[e1] \in {"fulfilled", "rejected"}
       /\ pc[e2] \in {"waiting", "token", "fetching"}
       /\ e1 \notin SuccessfulIds \cup FailedIds

\* C32: the DELETE a call sends after a 401 never carries the token that
\* was just answered 401.
RetryUsesFreshToken ==
  \A a \in Attempts : apc[a] = "fetching" => bearer[a] # refused[a]

\* C33: a run that has been started returns its report.
RunEventuallyReturns == (enginePc = "running") ~> (enginePc = "done")

\* The attempts of a run whose acquire() has returned.
GrantedOf(evs, pcs) ==
  { k \in 1..Len(evs) : pcs[evs[k]] \notin {"pending", "waiting"} }

TimesReported(res, e) ==
  Cardinality({ k \in 1..Len(res.successful) : res.successful[k].actualEventId = e })
    + Cardinality({ k \in 1..Len(res.failed) : res.failed[k].actualEventId = e })

\* A run is on its own: its limiter holds no more timestamps than its own
\* attempts were granted, a request of no more than maxRequests events never
\* waits, its report holds none of its events twice and no more entries than
\* its request has events, and all of them once when the run has returned.
RunIsOwn(evs, reqs, res, pcs, epc) ==
  /\ Len(reqs) <= Cardinality(GrantedOf(evs, pcs))
  /\ Len(evs) <= maxRequests => \A k \in 1..Len(evs) : pcs[evs[k]] # "waiting"
  /\ Len(res.successful) + Len(res.failed) <= Len(evs)
  /\ \A k \in 1..Len(evs) : TimesReported(res, evs[k]) <= 1
  /\ epc = "done" => \A k \in 1..Len(evs) : TimesReported(res, evs[k]) = 1

\* C34: of two runs in progress side by side, each has its own limiter and
\* its own report, which holds the events of its own request and no others.
RunsIndependent ==
  /\ RunIsOwn(events, requests, results, pc, enginePc)
  /\ RunIsOwn(other.events, other.requests, other.results, other.pc, other.enginePc)

\* Both runs are in progress, and together they have been granted more than
\* maxRequests times at the present tick.
BothGrantedWitness ==
  /\ enginePc = "running"
  /\ other.enginePc = "running"
  /\ \A k \in 1..Len(requests) : requests[k] = now
  /\ \A k \in 1..Len(other.requests) : other.requests[k] = now
  /\ Len(requests) + Len(other.requests) > maxRequests

OneDeletionAtATime == Cardinality({ f \in Flows : fpc[f] = "sending" }) <= 1

DomIdsOf(list) == { list[k].domEventId : k \in 1..Len(list) }

\* C37: every id handed to performBulkDeletion is in eventsToDelete or in
\* nonDeletableEvents.
ConfirmedAccountedFor ==
  \A f \in Flows :
    SeqRange(asked[f])
      \subseteq DomIdsOf(deletion[f].eventsToDelete)
                  \cup DomIdsOf(deletion[f].nonDeletableEvents)

\* C38: the step that handles the worker's report takes out of eventCache
\* the events of result.successful and leaves every other entry as it was,
\* in its place.
CacheLosesSuccessfulOnly ==
  [][ (dpc = "sending" /\ response'.kind = "result") =>
        eventCache' =
          SelectSeq(eventCache,
                    LAMBDA event : event.id \notin DomIdsOf(response'.successful))
    ]_vars

\* A report with a deleted event and a failed one has been handled, and the
\* failed one is in the cache.
FailedKeptWitness ==
  /\ dpc = "finished"
  /\ response.kind = "result"
  /\ response.successful # <<>>
  /\ \E k \in 1..Len(response.failed) :
       InCache(eventCache, response.failed[k].domEventId)

\* C39: isProcessing is true only while a performBulkDeletion is between
\* its first line and its end.
ProcessingOnlyWhileRunning ==
  isProcessing => \E f \in Flows : InProgress(f)

\* One performBulkDeletion has ended by an exception and another one in
\* another way, and isProcessing is false.
EndedTwoWaysWitness ==
  /\ ~isProcessing
  /\ \E f, g \in Flows :
       /\ ending[f] = "threw"
       /\ ending[g] \in {"nothing", "result", "error"}

\* C40: handleMessage never calls sendResponse twice for a message, and
\* when it has ended it has called it once: with success true and what the
\* action returned when the action completed, and with success false and
\* the error's message when the action is unknown or threw.
RespondsExactlyOnce ==
  \A m \in Messages :
    /\ Len(replies[m]) <= 1
    /\ hpc[m] = "ended" =>
         /\ Len(replies[m]) = 1
         /\ replies[m][1].success = (awaited[m].kind = "fulfilled")
         /\ awaited[m].kind = "fulfilled" =>
              replies[m] = <<SuccessReply(inbox[m], awaited[m].value)>>
         /\ awaited[m].kind = "rejected" =>
              replies[m][1].error = awaited[m].error.message
         /\ awaited[m].kind = "none" => replies[m][1].error # ""

\* One message was answered after its deletion returned with a deleted and
\* a failed event, one after its action threw.
AnsweredBothWaysWitness ==
  \E m1, m2 \in Messages :
    /\ hpc[m1] = "ended"
    /\ inbox[m1].action = "BULK_DELETE_EVENTS"
    /\ awaited[m1].kind = "fulfilled"
    /\ awaited[m1].value.successful # <<>>
    /\ awaited[m1].value.failed # <<>>
    /\ hpc[m2] = "ended"
    /\ awaited[m2].kind = "rejected"

====
